---------------------------- MODULE Spec2Model ----------------------------
(***************************************************************************)
(* Verification model of the easypath conversational-flow platform.        *)
(*                                                                         *)
(*   Spec         the engine: run_step and the caller's auto-advance loop  *)
(*                (apps/engine/app/core, apps/engine/app/api/routes)       *)
(*   SpecHub      the event hub: the send tasks of one run_step call       *)
(*                (apps/engine/app/ws)                                     *)
(*   SpecAdapter  the chat-platform adapter: duplicate suppression on the  *)
(*                streaming and fallback paths                             *)
(*                (apps/messaging-gateway/app/services/telegram.py)        *)
(*   SpecFlight   the adapter's single-flight gate                         *)
(*                (apps/messaging-gateway/app/services/telegram.py)        *)
(*   SpecPool     the outbound connection pool; SpecPoolFair adds that a   *)
(*                caller that can go on does                               *)
(*                (apps/messaging-gateway/app/services/engine_ws_client.py)*)
(*                                                                         *)
(* Node records carry the fields of the engine-format node dictionary      *)
(* (apps/messaging-gateway/app/utils/flow_converter.py) that run_step,     *)
(* choose_next and the chat routes read.                                   *)
(***************************************************************************)
EXTENDS Integers, Sequences, FiniteSets, TLC

(***************************************************************************)
(* Bounds of the model                                                     *)
(***************************************************************************)
\* number of run_step calls explored on one session
MaxSteps == 2

(***************************************************************************)
(* Generic helpers                                                         *)
(***************************************************************************)
Max2(a, b) == IF a >= b THEN a ELSE b

(***************************************************************************)
(* Text: strings are opaque to TLC, so the texts that are compared         *)
(* character by character are given by their character sequences.          *)
(***************************************************************************)
Chars(s) ==
    CASE s = "ab"   -> <<"a", "b">>
      [] s = "cd"   -> <<"c", "d">>
      [] s = "abx"  -> <<"a", "b", "x">>
      [] s = "help" -> <<"h", "e", "l", "p">>
      [] s = "hel"  -> <<"h", "e", "l">>
      [] s = "zz"   -> <<"z", "z">>
      [] s = "a"    -> <<"a">>
      [] OTHER      -> <<>>

RECURSIVE LCS(_, _)
\* length of a longest common subsequence
LCS(a, b) ==
    IF a = <<>> \/ b = <<>> THEN 0
    ELSE IF Head(a) = Head(b) THEN 1 + LCS(Tail(a), Tail(b))
         ELSE Max2(LCS(Tail(a), b), LCS(a, Tail(b)))

\* int(round(100 * 2M / T)), rounding half to even as Python's round does
RatioOf(a, b) ==
    IF Len(a) = 0 \/ Len(b) = 0 THEN 0
    ELSE LET n == 200 * LCS(a, b)
             t == Len(a) + Len(b)
             q == n \div t
             r == n % t
         IN  IF 2 * r > t THEN q + 1
             ELSE IF 2 * r = t THEN q + (q % 2)
             ELSE q

FUZZY_THRESHOLD == 80

(***************************************************************************)
(* Flow model                                                              *)
(***************************************************************************)
NoNode == "<none>"

Var(name, description, required) ==
    [name |-> name, description |-> description, required |-> required]

Node(id, is_global, auto_return, extract_vars, skip, loop_enabled, loop_condition) ==
    [id |-> id, is_global |-> is_global, auto_return_to_previous |-> auto_return,
     extract_vars |-> extract_vars, skip_user_response |-> skip,
     loop_enabled |-> loop_enabled, loop_condition |-> loop_condition]

Connection(id, label, source, target) ==
    [id |-> id, label |-> label, source |-> source, target |-> target]

\* start --ab--> ask --ab--> auto --ab--> end ; ask --cd--> end ; global help
FlowMain ==
    [first_node_id |-> "start",
     nodes |-> <<
        Node("start", FALSE, FALSE,
             <<Var("user_name", "name?", TRUE), Var("user_email", "email?", FALSE)>>,
             FALSE, FALSE, ""),
        Node("ask", FALSE, FALSE, <<>>, FALSE, TRUE, "until a number"),
        Node("auto", FALSE, FALSE, <<>>, TRUE, FALSE, ""),
        Node("end", FALSE, FALSE, <<>>, FALSE, FALSE, ""),
        Node("help", TRUE, TRUE, <<>>, FALSE, FALSE, "") >>,
     connections |-> <<
        Connection("c1", "ab", "start", "ask"),
        Connection("c2", "ab", "ask", "auto"),
        Connection("c3", "cd", "ask", "end"),
        Connection("c4", "ab", "auto", "end") >>]

\* two auto-advancing nodes in a cycle, no global node, a node without exits
FlowCycle ==
    [first_node_id |-> "start",
     nodes |-> <<
        Node("start", FALSE, FALSE, <<Var("user_name", "name?", TRUE)>>,
             TRUE, FALSE, ""),
        Node("ask", FALSE, FALSE, <<>>, TRUE, TRUE, ""),
        Node("end", FALSE, FALSE, <<>>, FALSE, FALSE, "") >>,
     connections |-> <<
        Connection("c1", "ab", "start", "ask"),
        Connection("c2", "ab", "ask", "start"),
        Connection("c3", "cd", "ask", "end") >>]

Flows == {FlowMain, FlowCycle}

\* a flow as the request may carry it: first_node_id is the empty string
FlowBlank ==
    [first_node_id |-> "",
     nodes |-> << Node("start", FALSE, FALSE, <<>>, FALSE, FALSE, "") >>,
     connections |-> <<>>]

NodeIds(f) == {f.nodes[i].id : i \in 1..Len(f.nodes)}

HasNode(f, node_id) == node_id \in NodeIds(f)

\* Flow.get_node_by_id: the first node with that id
get_node_by_id(f, node_id) ==
    f.nodes[CHOOSE i \in 1..Len(f.nodes) :
              /\ f.nodes[i].id = node_id
              /\ \A j \in 1..(i - 1) : f.nodes[j].id # node_id]

\* Flow.get_connection: the first connection between the two nodes, or none
NoConnection == Connection("", "", "", "")

get_connection(f, source_id, target_id) ==
    LET hits == {i \in 1..Len(f.connections) :
                    /\ f.connections[i].source = source_id
                    /\ f.connections[i].target = target_id}
    IN  IF hits = {} THEN NoConnection
        ELSE f.connections[CHOOSE i \in hits : \A j \in hits : i <= j]


(***************************************************************************)
(* ChatSession                                                             *)
(***************************************************************************)
Text(t) == <<t>>

Message(role, content) == [role |-> role, content |-> content]

\* chat_manager.new_session
new_session(first_node_id) ==
    [current_node_id |-> first_node_id, previous_node_id |-> NoNode,
     history |-> <<>>, extracted_variables |-> <<>>]

add_user_message(session, content) ==
    [session EXCEPT !.history = Append(@, Message("user", content))]

add_assistant_message(session, content) ==
    [session EXCEPT !.history = Append(@, Message("assistant", content))]

\* the buggy variant: the mapping is replaced by the single new entry
set_variable_Replacing(variables, name, value) ==
    [n \in {name} |-> value]

\* ChatSession.set_variable on the extracted_variables mapping
set_variable(variables, name, value) ==
    [n \in (DOMAIN variables) \cup {name} |->
        IF n = name THEN value ELSE variables[n]]

(***************************************************************************)
(* Events (ws/emitter.py): type, node id and one auxiliary string          *)
(***************************************************************************)
Event(type, node, aux) == [type |-> type, node |-> node, aux |-> aux]

(***************************************************************************)
(* Pathway selector (core/pathway_selector.py)                             *)
(***************************************************************************)
LowerOf(c) ==
    CASE c = "A" -> "a"
      [] c = "B" -> "b"
      [] c = "-" -> " "
      [] OTHER   -> c

RECURSIVE StripLeft(_)
StripLeft(s) ==
    IF s # <<>> /\ Head(s) = " " THEN StripLeft(Tail(s)) ELSE s

RECURSIVE Reverse(_)
Reverse(s) == IF s = <<>> THEN <<>> ELSE Append(Reverse(Tail(s)), Head(s))

\* fuzzywuzzy utils.full_process: lower-case, non-alphanumerics to blanks, strip
full_process(s) ==
    LET mapped == [i \in 1..Len(s) |-> LowerOf(s[i])]
    IN  Reverse(StripLeft(Reverse(StripLeft(mapped))))

\* fuzz.ratio on the processed texts
fuzz_ratio(query, choice) ==
    RatioOf(full_process(Chars(query)), full_process(Chars(choice)))

\* the buggy variant: every connection of the flow is offered
format_prompt_AllConnections(f, current_node_id) ==
    f.connections \o
    LET globals == SelectSeq(f.nodes, LAMBDA n : n.is_global)
    IN  [i \in 1..Len(globals) |->
            Connection("global-" \o globals[i].id, globals[i].id,
                       current_node_id, globals[i].id)]

\* _format_prompt: the candidate list (the connections leaving the current
\* node, then one virtual connection per global node)
format_prompt(f, current_node_id) ==
    SelectSeq(f.connections, LAMBDA c : c.source = current_node_id) \o
    LET globals == SelectSeq(f.nodes, LAMBDA n : n.is_global)
    IN  [i \in 1..Len(globals) |->
            Connection("global-" \o globals[i].id, globals[i].id,
                       current_node_id, globals[i].id)]

\* process.extractOne(..., scorer=fuzz.ratio): index of the first candidate
\* with the highest score
extractOne(response, candidates) ==
    CHOOSE i \in 1..Len(candidates) :
        /\ \A j \in 1..Len(candidates) :
              fuzz_ratio(response, candidates[j].label)
                 <= fuzz_ratio(response, candidates[i].label)
        /\ \A j \in 1..(i - 1) :
              fuzz_ratio(response, candidates[j].label)
                 < fuzz_ratio(response, candidates[i].label)

\* An LLM answer: kind is "ok" (success with a text), "fail" (success=false)
\* or "raise" (the call raised)
Answer(kind, response) == [kind |-> kind, response |-> response]

\* the target of the first candidate carrying the best match's label, with
\* the match's score (lines 105-139)
selected_target(candidates, response, best) ==
    [next |-> candidates[CHOOSE i \in 1..Len(candidates) :
                 /\ candidates[i].label = candidates[best].label
                 /\ \A j \in 1..(i - 1) :
                       candidates[j].label # candidates[best].label].target,
     score |-> fuzz_ratio(response, candidates[best].label),
     confident |-> fuzz_ratio(response, candidates[best].label) >= FUZZY_THRESHOLD]

\* the buggy variant: a best match below the threshold keeps the current node
choose_among_SelfLoopBelow(candidates, current_node_id, llm_answer) ==
    IF /\ llm_answer.kind = "ok"
       /\ candidates # <<>>
       /\ selected_target(candidates, llm_answer.response,
              extractOne(llm_answer.response, candidates)).confident
    THEN selected_target(candidates, llm_answer.response,
                         extractOne(llm_answer.response, candidates))
    ELSE [next |-> current_node_id, score |-> -1, confident |-> FALSE]

\* choose_next once the candidate list is built
choose_among(candidates, current_node_id, llm_answer) ==
    IF llm_answer.kind = "ok" /\ candidates # <<>>
    THEN selected_target(candidates, llm_answer.response,
                         extractOne(llm_answer.response, candidates))
    ELSE [next |-> current_node_id, score |-> -1, confident |-> FALSE]

\* the buggy variant: the LLM's text is taken as the next node id
choose_next_ReturnsAnswer(f, current_node_id, llm_answer) ==
    IF llm_answer.kind = "ok" /\ format_prompt(f, current_node_id) # <<>>
    THEN [next |-> llm_answer.response, score |-> 100, confident |-> TRUE]
    ELSE [next |-> current_node_id, score |-> -1, confident |-> FALSE]

\* choose_next: (next node id, confidence score or -1)
choose_next(f, current_node_id, llm_answer) ==
    choose_among(format_prompt(f, current_node_id), current_node_id, llm_answer)

(***************************************************************************)
(* Orchestrator (core/orchestrator.py)                                     *)
(***************************************************************************)
MAX_MESSAGE_LENGTH == 10000

\* A user message: its text, its length and whether it is whitespace only
UserMsg(text, length, blank) == [text |-> text, length |-> length, blank |-> blank]

AUTO_ADVANCE == UserMsg("[AUTO_ADVANCE]", 14, FALSE)

\* the buggy variant: an empty current_node_id is let through
validate_run_step_inputs_AnyNode(session, user_message) ==
    /\ user_message.length # 0
    /\ ~user_message.blank
    /\ user_message.length <= MAX_MESSAGE_LENGTH

\* _validate_run_step_inputs: TRUE when no ValueError is raised
validate_run_step_inputs(session, user_message) ==
    /\ user_message.length # 0
    /\ ~user_message.blank
    /\ user_message.length <= MAX_MESSAGE_LENGTH
    /\ session.current_node_id # ""

\* should_continue_extraction: a required variable is still missing
\* the buggy variant: an optional variable that is absent counts as missing
should_continue_extraction_AnyMissing(node, extracted_vars) ==
    /\ node.extract_vars # <<>>
    /\ \E i \in 1..Len(node.extract_vars) :
          node.extract_vars[i].name \notin DOMAIN extracted_vars

should_continue_extraction(node, extracted_vars) ==
    /\ node.extract_vars # <<>>
    /\ \E i \in 1..Len(node.extract_vars) :
          /\ node.extract_vars[i].required
          /\ node.extract_vars[i].name \notin DOMAIN extracted_vars

\* the variables still missing, in configuration order
missing_vars(node, extracted_vars) ==
    SelectSeq(node.extract_vars,
              LAMBDA v : v.required /\ v.name \notin DOMAIN extracted_vars)

\* the clarification reply of the extraction path
clarification_reply(node, extracted_vars) ==
    <<"Preciso de mais algumas informacoes. Voce poderia me informar: ">>
    \o [i \in 1..Len(missing_vars(node, extracted_vars)) |->
            missing_vars(node, extracted_vars)[i].description]
    \o <<"?">>

\* What extract_variables hands back: kind "ok" with a mapping from some of
\* the node's variable names to values, or kind "raise"
Extraction(kind, values) == [kind |-> kind, values |-> values]

VarNames(node) == {node.extract_vars[i].name : i \in 1..Len(node.extract_vars)}

Values == {"v1", "v2"}

ExtractOutcomes(node) ==
    {Extraction("raise", <<>>)} \cup
    {Extraction("ok", m) : m \in UNION {[S -> Values] : S \in SUBSET VarNames(node)}}

\* the names of a mapping in the order the extractor inserted them
ExtractedNames(node, values) ==
    LET hit == SelectSeq(node.extract_vars, LAMBDA v : v.name \in DOMAIN values)
    IN  [i \in 1..Len(hit) |-> hit[i].name]

RECURSIVE store_extracted(_, _, _)
\* the loop over extracted.items(): one set_variable per entry
store_extracted(variables, names, values) ==
    IF names = <<>> THEN variables
    ELSE store_extracted(set_variable(variables, Head(names), values[Head(names)]),
                         Tail(names), values)

\* generate_response: the LLM text, or "" when the LLM call did not succeed
generate_response(llm_answer) ==
    IF llm_answer.kind = "ok" THEN llm_answer.response ELSE ""

\* the buggy variant: node_entered is announced before the old node is left
transition_events_EnteredFirst(old_node_id, next_node_id, connection) ==
    << Event("node_entered", next_node_id, ""),
       Event("node_exited", old_node_id, ""),
       Event("pathway_selected", next_node_id, connection.id) >>

\* the events of a transition: node_exited, pathway_selected, node_entered
transition_events(old_node_id, next_node_id, connection) ==
    << Event("node_exited", old_node_id, ""),
       Event("pathway_selected", next_node_id, connection.id),
       Event("node_entered", next_node_id, "") >>

\* The outcome of one run_step call
StepResult(session, events, reply, path, entered) ==
    [session |-> session, events |-> events, reply |-> reply, path |-> path,
     entered |-> entered]

\* the buggy variant: the session stays on the node it entered
auto_return_Never(f, session, next_node_id) == session

\* auto-return (lines 416-421): a node with auto_return_to_previous hands the
\* session back to the node it came from
auto_return(f, session, next_node_id) ==
    IF /\ get_node_by_id(f, next_node_id).auto_return_to_previous
       /\ session.previous_node_id \notin {NoNode, ""}
    THEN [session EXCEPT !.current_node_id = session.previous_node_id]
    ELSE session

\* run_step from "generate response for the new node" on (lines 352-476)
respond_on_node(f, moved, events, env, next_node_id) ==
    IF env.gen.kind = "raise"
    THEN StepResult(moved, events,
             <<"Desculpe, nao consegui gerar uma resposta.">>,
             "gen_error", next_node_id)
    ELSE StepResult(
             auto_return(f, add_assistant_message(moved,
                               Text(generate_response(env.gen))), next_node_id),
             events \o << Event("response_generated", next_node_id, ""),
                          Event("assistant_message", next_node_id, ""),
                          Event("decision_step", next_node_id, "") >>,
             Text(generate_response(env.gen)), "advance", next_node_id)

\* the buggy variant: previous_node_id is not updated
move_to_KeepsPrevious(f, session, events, env, next_node_id) ==
    IF ~HasNode(f, next_node_id)
    THEN StepResult([session EXCEPT !.current_node_id = next_node_id],
                    events, <<>>, "raised", next_node_id)
    ELSE respond_on_node(f,
             [session EXCEPT !.current_node_id = next_node_id],
             events \o transition_events(session.current_node_id, next_node_id,
                         get_connection(f, session.current_node_id, next_node_id)),
             env, next_node_id)

\* run_step once the next node is chosen (lines 314-350); a next node id that
\* is no node of the flow makes get_node_by_id raise out of run_step after
\* the session was moved
move_to(f, session, events, env, next_node_id) ==
    IF ~HasNode(f, next_node_id)
    THEN StepResult([session EXCEPT !.previous_node_id = session.current_node_id,
                                    !.current_node_id = next_node_id],
             events \o SubSeq(transition_events(session.current_node_id, next_node_id,
                         get_connection(f, session.current_node_id, next_node_id)), 1, 2),
             <<>>, "raised", next_node_id)
    ELSE respond_on_node(f,
             [session EXCEPT !.previous_node_id = session.current_node_id,
                             !.current_node_id = next_node_id],
             events \o transition_events(session.current_node_id, next_node_id,
                         get_connection(f, session.current_node_id, next_node_id)),
             env, next_node_id)

\* run_step from "choose next node" on (lines 303-476)
run_step_advance(f, session, events, env) ==
    IF env.sel.kind = "raise"
    THEN StepResult(session, events,
             <<"Desculpe, ocorreu um erro ao processar sua solicitacao.">>,
             "choose_error", NoNode)
    ELSE move_to(f, session, events, env,
                 choose_next(f, session.current_node_id, env.sel).next)

\* the buggy variant: the loop evaluator's verdict is not followed
after_extraction_NoLoop(f, session, events, node, env) ==
    IF should_continue_extraction(node, session.extracted_variables)
    THEN StepResult(
             add_assistant_message(session,
                 clarification_reply(node, session.extracted_variables)),
             events \o << Event("assistant_message", node.id, ""),
                          Event("decision_step", node.id, "") >>,
             clarification_reply(node, session.extracted_variables),
             "clarify", NoNode)
    ELSE run_step_advance(f, session, events, env)

\* run_step after the extraction block: clarification, explicit loop or
\* advance (lines 95-300)
after_extraction(f, session, events, node, env) ==
    IF should_continue_extraction(node, session.extracted_variables)
    THEN StepResult(
             add_assistant_message(session,
                 clarification_reply(node, session.extracted_variables)),
             events \o << Event("assistant_message", node.id, ""),
                          Event("decision_step", node.id, "") >>,
             clarification_reply(node, session.extracted_variables),
             "clarify", NoNode)
    ELSE IF node.loop_enabled /\ node.loop_condition # "" /\ env.loop = "LOOP"
    THEN IF env.gen.kind = "raise"
         THEN StepResult(session, events,
                  <<"Desculpe, nao consegui gerar uma resposta.">>,
                  "loop_gen_error", NoNode)
         ELSE StepResult(
                  add_assistant_message(session, Text(generate_response(env.gen))),
                  events \o << Event("response_generated", node.id, ""),
                               Event("assistant_message", node.id, ""),
                               Event("decision_step", node.id, "") >>,
                  Text(generate_response(env.gen)), "loop", NoNode)
    ELSE run_step_advance(f, session, events, env)

\* the mapping the extraction block stores: nothing when the node extracts
\* nothing or the extractor raised (lines 66-77)
extracted_values(node, ext) ==
    IF node.extract_vars # <<>> /\ ext.kind = "ok" THEN ext.values ELSE <<>>

\* the extraction block (lines 66-93): store and announce each value
extraction(f, session, events, node, env, names) ==
    after_extraction(f,
        [session EXCEPT !.extracted_variables =
            store_extracted(@, names, extracted_values(node, env.ext))],
        events \o [i \in 1..Len(names) |->
                      Event("variable_extracted", node.id, names[i])],
        node, env)

\* run_step: validation, user message, current node, then the rest
run_step(f, session, user_message, env) ==
    IF ~validate_run_step_inputs(session, user_message)
    THEN StepResult(session, <<>>,
             <<"Desculpe, nao consegui processar sua mensagem. Por favor, tente novamente.">>,
             "invalid", NoNode)
    ELSE IF ~HasNode(f, session.current_node_id)
    THEN StepResult(add_user_message(session, Text(user_message.text)),
             <<Event("user_message", session.current_node_id, user_message.text)>>,
             <<"Erro no fluxo de conversacao.">>, "no_node", NoNode)
    ELSE extraction(f,
             add_user_message(session, Text(user_message.text)),
             <<Event("user_message", session.current_node_id, user_message.text)>>,
             get_node_by_id(f, session.current_node_id), env,
             ExtractedNames(get_node_by_id(f, session.current_node_id),
                 extracted_values(get_node_by_id(f, session.current_node_id), env.ext)))

\* step_timings, as far as the model names and the zeroed entries go
Timings(choose_next_model, generate_response_model, loop_evaluation_model, zeroed) ==
    [choose_next_model |-> choose_next_model,
     generate_response_model |-> generate_response_model,
     loop_evaluation_model |-> loop_evaluation_model,
     zeroed |-> zeroed]

\* _create_error_timings: every entry but the total is zero, every model "error"
create_error_timings == Timings("error", "error", "error", TRUE)

\* llm_info["model_name"] of choose_next and generate_response: the provider's
\* model name, or "unknown" when the result carries none (deepseek.py:58)
model_name(llm_answer) ==
    IF llm_answer.kind = "ok" THEN "deepseek-chat" ELSE "unknown"

\* loop_llm_info["model_name"]: "error" when should_loop raised (line 181)
loop_model_name(loop) == IF loop = "raise" THEN "error" ELSE "deepseek-chat"

\* the step_timings run_step returns at each of its returns (lines 44, 63,
\* 109-130, 210, 221-245, 333, 372, 424-448)
step_timings(path, env) ==
    CASE path \in {"invalid", "no_node", "choose_error", "gen_error",
                   "loop_gen_error"} -> create_error_timings
      [] path = "clarify" -> Timings("none", "none", "none", TRUE)
      [] path = "loop" ->
            Timings("none", model_name(env.gen), loop_model_name(env.loop), FALSE)
      [] OTHER ->
            Timings(model_name(env.sel), model_name(env.gen), "none", FALSE)

(***************************************************************************)
(* Chat route (api/routes/chat.py): one request is run_step, then the      *)
(* auto-advance loop, then save_session                                    *)
(***************************************************************************)
max_auto_advances == 10

UserMessages ==
    { UserMsg("hi", 2, FALSE), UserMsg("", 0, FALSE),
      UserMsg("   ", 3, TRUE), UserMsg("long", 10001, FALSE) }

\* what the LLM may answer to the pathway prompt
SelectorAnswers ==
    {Answer("ok", r) : r \in {"ab", "cd", "help", "a"}}
    \cup {Answer("fail", ""), Answer("raise", "")}

\* what the LLM may answer to the response prompt
ResponseAnswers == {Answer("ok", "ok"), Answer("fail", ""), Answer("raise", "")}

\* the outcomes of should_loop: stay, proceed, or an exception
LoopOutcomes == {"LOOP", "PROCEED", "raise"}

\* TRUE when run_step on this session, given this extraction result, asks for
\* the missing variables and makes no further call
asks_again(node, session, ext) ==
    should_continue_extraction(node,
        store_extracted(session.extracted_variables,
            ExtractedNames(node, extracted_values(node, ext)),
            extracted_values(node, ext)))

\* everything one run_step call obtains from outside: the extraction result
\* (only a node with extract_vars calls the extractor), the loop verdict (only
\* a node with a loop condition calls should_loop) and the two LLM answers.
\* Answers to calls the step never makes are not varied.
EnvsAt(node, session) ==
    { env \in [ ext  : IF node.extract_vars # <<>>
                       THEN ExtractOutcomes(node)
                       ELSE {Extraction("ok", <<>>)},
                loop : IF node.loop_enabled /\ node.loop_condition # ""
                       THEN LoopOutcomes
                       ELSE {"PROCEED"},
                sel  : SelectorAnswers,
                gen  : ResponseAnswers ] :
        /\ env.sel.kind = "raise" => env.gen = Answer("ok", "ok")
        /\ asks_again(node, session, env.ext) =>
              /\ env.loop = "PROCEED"
              /\ env.sel = Answer("ok", "ab")
              /\ env.gen = Answer("ok", "ok") }

\* a session on an unknown node reaches none of the calls
DefaultEnv ==
    [ext |-> Extraction("ok", <<>>), loop |-> "PROCEED",
     sel |-> Answer("ok", "ab"), gen |-> Answer("ok", "ok")]

Envs(f, session) ==
    IF HasNode(f, session.current_node_id)
    THEN EnvsAt(get_node_by_id(f, session.current_node_id), session)
    ELSE {DefaultEnv}

(***************************************************************************)
(* State.  Each component has its variables; a specification runs one      *)
(* component and leaves the variables of the others as they start.         *)
(***************************************************************************)
\* the engine (core/orchestrator.py behind api/routes/chat.py)
VARIABLES
    flow,                \* the flow the session runs
    saved,               \* the session store: <<>> or <<session>>
    session,             \* the session object of the request in progress
    events,              \* the events emitted by the last run_step, in order
    last,                \* what the last run_step call did
    pc,                  \* "idle", "advancing" (inside the auto-advance loop), "failed"
    auto_advance_count,  \* the loop counter of the request in progress
    steps                \* run_step calls made so far

engineVars == <<flow, saved, session, events, last, pc, auto_advance_count, steps>>

\* the event hub (ws/emitter.py, ws/manager.py)
VARIABLES
    hub_sockets,   \* active_connections[session_id]
    hub_phase,     \* "emitting" (inside run_step) or "looping" (tasks run)
    hub_emitted,   \* events emitted so far; event k is sent by task k
    hub_ready,     \* the event loop's queue of tasks ready to run
    hub_running,   \* the task that is executing, or 0
    hub_task,      \* per task: status, iterator position, size seen, failed sockets
    hub_paused,    \* per socket: its transport has asked the writers to pause
    hub_waiting,   \* per socket: the tasks suspended in send_text, oldest first
    hub_wire       \* per socket: the events written to it, in order

hubVars == <<hub_sockets, hub_phase, hub_emitted, hub_ready, hub_running,
             hub_task, hub_paused, hub_waiting, hub_wire>>

\* the chat-platform adapter, one session (services/telegram.py)
VARIABLES
    ad_now,            \* the clock, in seconds
    ad_turn,           \* inbound messages taken so far
    ad_pc,             \* where the turn in progress is
    ad_received,       \* messages_received of the streaming call
    ad_count,          \* message_count of the streaming call
    ad_messages_sent,  \* messages_sent of the streaming call: text -> time
    ad_parts,          \* self.sent_message_parts[session_id]
    ad_pending,        \* the text on its way to the platform and its current_time
    ad_fb_parts,       \* the parts of the fallback reply not looked at yet
    ad_log,            \* what the chat platform has received: text, time, turn
    ad_to_save,        \* messages_to_save of the streaming call
    ad_session,        \* the assistant messages added to the db session, not committed
    ad_db,             \* the assistant messages committed to the message log: text, turn
    ad_errors,         \* the send failures logged: text, turn
    ad_engine_turns    \* the turns the engine ran for the inbound message under way

storeVars == <<ad_to_save, ad_session, ad_db, ad_errors>>

adapterVars == <<ad_now, ad_turn, ad_pc, ad_received, ad_count, ad_messages_sent,
                 ad_parts, ad_pending, ad_fb_parts, ad_log, storeVars,
                 ad_engine_turns>>

\* the adapter's single-flight gate, one session (services/telegram.py)
VARIABLES
    fl_msg,      \* per inbound message: position, captured active_task, waiting time
    fl_arrived,  \* inbound messages that have reached process_update
    fl_active,   \* self.active_streaming_tasks[session_id]: a message's task, or 0
    fl_started   \* the messages in the order they started processing

flightVars == <<fl_msg, fl_arrived, fl_active, fl_started>>

\* the outbound connection pool, one session (services/engine_ws_client.py)
VARIABLES
    pool_caller,     \* per caller of _ensure_connection: position, retry_count, locks
    pool_conn,       \* self._connections[session_id]: a connection, or 0
    pool_open,       \* the connections to the engine that are open
    pool_lock,       \* self._connection_locks[session_id]: a lock, or 0
    pool_locks_made, \* locks created so far for the session
    pool_owner,      \* per lock: the caller that holds it, or 0
    pool_cleanups    \* close_connection calls so far

poolVars == <<pool_caller, pool_conn, pool_open, pool_lock, pool_locks_made,
              pool_owner, pool_cleanups>>

\* the outbound send queue, one session (services/engine_ws_client.py)
VARIABLES
    sq_call,        \* per send_user_message call: "none", "waiting", "sent", "failed"
    sq_queue,       \* per asyncio.Queue made for the session: the items it holds
    sq_queues_made, \* queues created so far for the session
    sq_send_queue,  \* self._send_queues[session_id]: a queue, or 0
    sq_task,        \* per sender task: position, its queue, its item, its connection
    sq_send_task,   \* self._send_tasks[session_id]: a task, or 0
    sq_conn,        \* self._connections[session_id]: a connection, or 0
    sq_conns_made,  \* connections created so far for the session
    sq_open,        \* the connections to the engine that are open
    sq_cleanups,    \* close_connection calls so far
    sq_wire         \* the user messages written to a socket, in the order written

sendVars == <<sq_call, sq_queue, sq_queues_made, sq_send_queue, sq_task, sq_send_task,
              sq_conn, sq_conns_made, sq_open, sq_cleanups, sq_wire>>

\* the outbound reader and its listeners, one session (services/engine_ws_client.py)
VARIABLES
    ls_listener,  \* per listen_for_assistant_messages call: position, queue, texts yielded
    ls_queues,    \* self._message_queues[session_id]: the listeners' queues in list order
    ls_listed,    \* whether self._message_queues has an entry for the session
    ls_conn,      \* the stored connection: "none", "open" or "closed"
    ls_reader,    \* the reader task of the stored connection: "none", "reading", "ended"
    ls_delayed,   \* whether a delayed cleanup is scheduled
    ls_cleanups,  \* close_connection calls so far
    ls_read       \* what the reader tasks have received, each with the queues listed then

listenVars == <<ls_listener, ls_queues, ls_listed, ls_conn, ls_reader, ls_delayed,
                ls_cleanups, ls_read>>

\* the loop evaluator (core/loop_evaluator.py): the last should_loop call
VARIABLES
    le_node,    \* the node the call was given (loop_enabled, loop_condition)
    le_env,     \* what the call met: prompt building and the LLM's answer
    le_result,  \* the boolean it returned
    le_calls,   \* the llm.chat calls it made
    le_done     \* whether should_loop has been called

loopVars == <<le_node, le_env, le_result, le_calls, le_done>>

\* the variable extractor (core/variable_extractor.py): one extract_variables call
VARIABLES
    ex_pc,      \* "idle", "looping" (inside the retry loop) or "returned"
    ex_attempt, \* the loop variable attempt
    ex_calls,   \* the llm.chat calls made so far
    ex_log,     \* what each attempt met, in order
    ex_result   \* the mapping returned

extractVars == <<ex_pc, ex_attempt, ex_calls, ex_log, ex_result>>

\* the Telegram webhook of the messaging gateway (api/webhooks.py)
VARIABLES
    wh_pc,        \* "idle", "returned" (handler done), "background" (response sent)
    wh_env,       \* what the request in hand met at each step of the handler
    wh_response,  \* what the handler returned for the request in hand
    wh_sent,      \* the responses sent so far, in order
    wh_processed  \* the background tasks run so far: request number and outcome

webhookVars == <<wh_pc, wh_env, wh_response, wh_sent, wh_processed>>

\* one chat conversation under session administration (messaging gateway
\* api/sessions.py, services/telegram.py) and the engine's session store
VARIABLES
    cv_conversation,  \* the PlatformConversation row: exists, session_id, status, messages
    cv_store,         \* the session ids the engine's session store holds
    cv_made,          \* the session ids made so far (uuid4 draws)
    cv_inbound,       \* the inbound chat messages handled so far
    cv_last           \* the last operation and what it did

convVars == <<cv_conversation, cv_store, cv_made, cv_inbound, cv_last>>

\* one session socket of the engine and the background task of its
\* user_message (api/routes/ws.py)
VARIABLES
    sk_task,     \* the task of _process_user_message: state, user_message, flow_data
    sk_frames,   \* the frames received on the socket so far
    sk_answer    \* the last error the handler or the task sent on the socket

socketVars == <<sk_task, sk_frames, sk_answer>>

\* the turns in flight on one session id in the engine (api/routes/chat.py,
\* api/routes/ws.py) and the session store between them
VARIABLES
    tn_store,   \* the history of the session in the store, <<>> when none is saved
    tn_turn     \* per turn: where it is, its route, the history of its session object

turnsVars == <<tn_store, tn_turn>>

\* the typing indicator of one inbound message on the streaming path
\* (services/telegram.py)
VARIABLES
    ty_pc,           \* where _process_with_streaming is
    ty_task,         \* per typing task created: where _keep_typing_alive is
    ty_typing_task,  \* the task the variable typing_task holds, 0 before the first
    ty_stop,         \* stop_typing.is_set()
    ty_batch,        \* the new messages of the batch not looked at yet: is_duplicate
    ty_batches,      \* the batches of new messages taken so far
    ty_engine_done,  \* engine_task.done()
    ty_ws_done,      \* ws_task.done()
    ty_sent,         \* per message sent: the typing tasks running at that moment
    ty_restarts      \* per restart of typing: engine_task.done() at that moment

typingVars == <<ty_pc, ty_task, ty_typing_task, ty_stop, ty_batch, ty_batches,
                ty_engine_done, ty_ws_done, ty_sent, ty_restarts>>

outsideEngine == <<hubVars, adapterVars, flightVars, poolVars, sendVars, listenVars, loopVars, extractVars, webhookVars, convVars, socketVars, turnsVars, typingVars>>

outsideHub == <<engineVars, adapterVars, flightVars, poolVars, sendVars, listenVars, loopVars, extractVars, webhookVars, convVars, socketVars, turnsVars, typingVars>>

outsideAdapter == <<engineVars, hubVars, flightVars, poolVars, sendVars, listenVars, loopVars, extractVars, webhookVars, convVars, socketVars, turnsVars, typingVars>>

outsideFlight == <<engineVars, hubVars, adapterVars, poolVars, sendVars, listenVars, loopVars, extractVars, webhookVars, convVars, socketVars, turnsVars, typingVars>>

outsidePool == <<engineVars, hubVars, adapterVars, flightVars, sendVars, listenVars, loopVars, extractVars, webhookVars, convVars, socketVars, turnsVars, typingVars>>

outsideSend == <<engineVars, hubVars, adapterVars, flightVars, poolVars, listenVars, loopVars, extractVars, webhookVars, convVars, socketVars, turnsVars, typingVars>>

outsideListen == <<engineVars, hubVars, adapterVars, flightVars, poolVars, sendVars, loopVars, extractVars, webhookVars, convVars, socketVars, turnsVars, typingVars>>

outsideLoop == <<engineVars, hubVars, adapterVars, flightVars, poolVars, sendVars, listenVars, extractVars, webhookVars, convVars, socketVars, turnsVars, typingVars>>

outsideExtract == <<engineVars, hubVars, adapterVars, flightVars, poolVars, sendVars, listenVars, loopVars, webhookVars, convVars, socketVars, turnsVars, typingVars>>

outsideWebhook == <<engineVars, hubVars, adapterVars, flightVars, poolVars, sendVars, listenVars, loopVars, extractVars, convVars, socketVars, turnsVars, typingVars>>

outsideConv == <<engineVars, hubVars, adapterVars, flightVars, poolVars, sendVars, listenVars, loopVars, extractVars, webhookVars, socketVars, turnsVars, typingVars>>

outsideSocket == <<engineVars, hubVars, adapterVars, flightVars, poolVars, sendVars, listenVars, loopVars, extractVars, webhookVars, convVars, turnsVars, typingVars>>

outsideTurns == <<engineVars, hubVars, adapterVars, flightVars, poolVars, sendVars, listenVars, loopVars, extractVars, webhookVars, convVars, socketVars, typingVars>>

outsideTyping == <<engineVars, hubVars, adapterVars, flightVars, poolVars, sendVars, listenVars, loopVars, extractVars, webhookVars, convVars, socketVars, turnsVars>>

vars == <<engineVars, hubVars, adapterVars, flightVars, poolVars, sendVars, listenVars, loopVars, extractVars, webhookVars, convVars, socketVars, turnsVars, typingVars>>

NoSession == new_session("")

NoStep ==
    [path |-> "none", valid |-> FALSE, from |-> NoNode, entered |-> NoNode,
     hist_len |-> 0, names_before |-> {}, ext_names |-> {}, reply |-> <<>>,
     before |-> NoSession, user_message |-> UserMsg("", 0, FALSE),
     env |-> DefaultEnv]

\* the names the extractor handed to a run_step call on `before`
handed_names(f, before, env) ==
    IF HasNode(f, before.current_node_id)
    THEN DOMAIN extracted_values(get_node_by_id(f, before.current_node_id), env.ext)
    ELSE {}

\* the record of a run_step call on `before` with result r
StepRecord(f, before, user_message, env, r) ==
    [path |-> r.path, valid |-> validate_run_step_inputs(before, user_message),
     from |-> before.current_node_id, entered |-> r.entered,
     hist_len |-> Len(before.history),
     names_before |-> DOMAIN before.extracted_variables,
     ext_names |-> IF r.path = "invalid" THEN {} ELSE handed_names(f, before, env),
     reply |-> r.reply, before |-> before, user_message |-> user_message,
     env |-> env]

\* the request handler takes over the outcome r of a run_step call
take_step(before, user_message, env, r) ==
    /\ session' = r.session
    /\ events' = r.events
    /\ last' = StepRecord(flow, before, user_message, env, r)
    /\ pc' = IF r.path = "raised" THEN "failed" ELSE "advancing"
    /\ steps' = steps + 1
    /\ UNCHANGED <<flow, saved>>
    /\ UNCHANGED outsideEngine

\* load_session, or new_session when there is none
load_or_new(f, store) ==
    IF store = <<>> THEN new_session(f.first_node_id) ELSE store[1]

InitEngine ==
    /\ flow \in Flows
    /\ saved = <<>>
    /\ session = NoSession
    /\ events = <<>>
    /\ last = NoStep
    /\ pc = "idle"
    /\ auto_advance_count = 0
    /\ steps = 0

\* post_message: load or create the session and run the first step
PostMessage ==
    /\ pc = "idle"
    /\ steps < MaxSteps
    /\ \E user_message \in UserMessages :
         \E env \in Envs(flow, load_or_new(flow, saved)) :
            take_step(load_or_new(flow, saved), user_message, env,
                      run_step(flow, load_or_new(flow, saved), user_message, env))
    /\ auto_advance_count' = 0

\* one iteration of the auto-advance loop
AutoAdvance ==
    /\ pc = "advancing"
    /\ steps < MaxSteps
    /\ auto_advance_count < max_auto_advances
    /\ HasNode(flow, session.current_node_id)
    /\ get_node_by_id(flow, session.current_node_id).skip_user_response
    /\ \E env \in Envs(flow, session) :
          take_step(session, AUTO_ADVANCE, env,
                    run_step(flow, session, AUTO_ADVANCE, env))
    /\ auto_advance_count' = auto_advance_count + 1

\* the loop's flow.get_node_by_id finds no node with the session's node id
\* and raises: the request fails and nothing is saved (chat.py:90)
RequestFails ==
    /\ pc = "advancing"
    /\ ~HasNode(flow, session.current_node_id)
    /\ pc' = "failed"
    /\ UNCHANGED <<flow, saved, session, events, last, auto_advance_count, steps>>
    /\ UNCHANGED outsideEngine

\* the loop is left: save_session and the response
Respond ==
    /\ pc = "advancing"
    /\ HasNode(flow, session.current_node_id)
    /\ ~ ( /\ auto_advance_count < max_auto_advances
           /\ get_node_by_id(flow, session.current_node_id).skip_user_response )
    /\ saved' = <<session>>
    /\ pc' = "idle"
    /\ UNCHANGED <<flow, session, events, last, auto_advance_count, steps>>
    /\ UNCHANGED outsideEngine

(***************************************************************************)
(* Event hub (ws/emitter.py, ws/manager.py): every emit of a run_step call *)
(* creates one task running send_event.  The event loop starts tasks in    *)
(* creation order and runs one task at a time until it suspends; a task    *)
(* suspended in send_text runs again after the loop has found its socket   *)
(* writable.                                                               *)
(***************************************************************************)
\* events emitted by the run_step call that is followed
MaxEvents == 3

\* the sockets of the session in the iteration order of the connection set
SocketOrder == <<"ws1", "ws2">>

Sockets == {SocketOrder[i] : i \in 1..Len(SocketOrder)}

NoTask == [status |-> "none", pos |-> 0, used |-> 0, failed |-> {}]

InitHub ==
    /\ hub_sockets = Sockets
    /\ hub_phase = "emitting"
    /\ hub_emitted = 0
    /\ hub_ready = <<>>
    /\ hub_running = 0
    /\ hub_task = [t \in 1..MaxEvents |-> NoTask]
    /\ hub_paused = [s \in Sockets |-> FALSE]
    /\ hub_waiting = [s \in Sockets |-> <<>>]
    /\ hub_wire = [s \in Sockets |-> <<>>]

\* the i-th slot of the connection set: all tasks iterate the same set object
socket_at(i) == SocketOrder[i]

\* the slots after position pos that still hold a registered socket
slots_left(pos) ==
    {i \in (pos + 1)..Len(SocketOrder) : socket_at(i) \in hub_sockets}

\* the next slot the set iterator yields
next_slot(pos) ==
    CHOOSE i \in slots_left(pos) : \A j \in slots_left(pos) : i <= j

\* the orders in which one poll of the event loop can report sockets writable
PollOrders ==
    {<<s>> : s \in Sockets} \cup
    {order \in Sockets \X Sockets : order[1] # order[2]}

RECURSIVE woken(_, _)
\* the tasks resumed by a poll, in the order they are made ready
woken(order, waiting) ==
    IF order = <<>> THEN <<>>
    ELSE waiting[Head(order)] \o woken(Tail(order), waiting)

\* _emit_sync: loop.create_task(send_event(event)) for the next event
Emit ==
    /\ hub_phase = "emitting"
    /\ hub_emitted < MaxEvents
    /\ hub_emitted' = hub_emitted + 1
    /\ hub_task' = [hub_task EXCEPT ![hub_emitted + 1].status = "created"]
    /\ hub_ready' = Append(hub_ready, hub_emitted + 1)
    /\ UNCHANGED <<hub_sockets, hub_phase, hub_running, hub_paused,
                   hub_waiting, hub_wire>>
    /\ UNCHANGED outsideHub

\* run_step returns and its caller awaits: the event loop takes over
Yield ==
    /\ hub_phase = "emitting"
    /\ hub_emitted > 0
    /\ hub_phase' = "looping"
    /\ UNCHANGED <<hub_sockets, hub_emitted, hub_ready, hub_running, hub_task,
                   hub_paused, hub_waiting, hub_wire>>
    /\ UNCHANGED outsideHub

\* the event loop runs the oldest ready task: a new task enters send_event
\* (returning at once when the session has no connections) and takes the
\* first socket of the set, a resumed one continues inside its send_text
Dispatch ==
    /\ hub_phase = "looping"
    /\ hub_running = 0
    /\ hub_ready # <<>>
    /\ hub_ready' = Tail(hub_ready)
    /\ IF hub_task[Head(hub_ready)].status = "created"
       THEN IF hub_sockets = {}
            THEN /\ hub_task' = [hub_task EXCEPT ![Head(hub_ready)].status = "done"]
                 /\ hub_running' = 0
            ELSE /\ hub_task' = [hub_task EXCEPT
                        ![Head(hub_ready)].status = "sending",
                        ![Head(hub_ready)].pos = next_slot(0),
                        ![Head(hub_ready)].used = Cardinality(hub_sockets)]
                 /\ hub_running' = Head(hub_ready)
       ELSE /\ hub_task' = [hub_task EXCEPT ![Head(hub_ready)].status = "resumed"]
            /\ hub_running' = Head(hub_ready)
    /\ UNCHANGED <<hub_sockets, hub_phase, hub_emitted, hub_paused,
                   hub_waiting, hub_wire>>
    /\ UNCHANGED outsideHub

\* the running task is inside "await connection.send_text" for its socket
InSend(t) ==
    /\ t # 0
    /\ hub_task[t].status \in {"sending", "resumed"}

\* send_text writes the frame on a writable socket (a resumed task writes
\* without looking again); the write may fill the socket's buffer
SendWrites ==
    /\ InSend(hub_running)
    /\ \/ hub_task[hub_running].status = "resumed"
       \/ ~hub_paused[socket_at(hub_task[hub_running].pos)]
    /\ hub_wire' = [hub_wire EXCEPT ![socket_at(hub_task[hub_running].pos)] =
                       Append(@, hub_running)]
    /\ \E full \in BOOLEAN :
          hub_paused' = [hub_paused EXCEPT
              ![socket_at(hub_task[hub_running].pos)] = @ \/ full]
    /\ hub_task' = [hub_task EXCEPT ![hub_running].status = "iterating"]
    /\ UNCHANGED <<hub_sockets, hub_phase, hub_emitted, hub_ready, hub_running,
                   hub_waiting>>
    /\ UNCHANGED outsideHub

\* send_text finds the socket paused and suspends until it is writable
SendSuspends ==
    /\ InSend(hub_running)
    /\ hub_task[hub_running].status = "sending"
    /\ hub_paused[socket_at(hub_task[hub_running].pos)]
    /\ hub_waiting' = [hub_waiting EXCEPT ![socket_at(hub_task[hub_running].pos)] =
                          Append(@, hub_running)]
    /\ hub_task' = [hub_task EXCEPT ![hub_running].status = "suspended"]
    /\ hub_running' = 0
    /\ UNCHANGED <<hub_sockets, hub_phase, hub_emitted, hub_ready, hub_paused,
                   hub_wire>>
    /\ UNCHANGED outsideHub

\* send_text raises: the socket is noted for removal, the loop goes on
SendRaises ==
    /\ InSend(hub_running)
    /\ hub_task' = [hub_task EXCEPT
            ![hub_running].status = "iterating",
            ![hub_running].failed = @ \cup {socket_at(hub_task[hub_running].pos)}]
    /\ UNCHANGED <<hub_sockets, hub_phase, hub_emitted, hub_ready, hub_running,
                   hub_paused, hub_waiting, hub_wire>>
    /\ UNCHANGED outsideHub

\* the running task asks the set iterator for the next connection
Iterating(t) ==
    /\ t # 0
    /\ hub_task[t].status = "iterating"

\* the set iterator finds the set's size changed: RuntimeError ends the task
IterationFails ==
    /\ Iterating(hub_running)
    /\ hub_task[hub_running].used # Cardinality(hub_sockets)
    /\ hub_task' = [hub_task EXCEPT ![hub_running].status = "dead"]
    /\ hub_running' = 0
    /\ UNCHANGED <<hub_sockets, hub_phase, hub_emitted, hub_ready, hub_paused,
                   hub_waiting, hub_wire>>
    /\ UNCHANGED outsideHub

\* the for loop takes the next connection of the set
NextConnection ==
    /\ Iterating(hub_running)
    /\ hub_task[hub_running].used = Cardinality(hub_sockets)
    /\ slots_left(hub_task[hub_running].pos) # {}
    /\ hub_task' = [hub_task EXCEPT
            ![hub_running].status = "sending",
            ![hub_running].pos = next_slot(hub_task[hub_running].pos)]
    /\ UNCHANGED <<hub_sockets, hub_phase, hub_emitted, hub_ready, hub_running,
                   hub_paused, hub_waiting, hub_wire>>
    /\ UNCHANGED outsideHub

\* the for loop is exhausted: the failed sockets are disconnected
SendEventEnds ==
    /\ Iterating(hub_running)
    /\ hub_task[hub_running].used = Cardinality(hub_sockets)
    /\ slots_left(hub_task[hub_running].pos) = {}
    /\ hub_sockets' = hub_sockets \ hub_task[hub_running].failed
    /\ hub_task' = [hub_task EXCEPT ![hub_running].status = "done"]
    /\ hub_running' = 0
    /\ UNCHANGED <<hub_phase, hub_emitted, hub_ready, hub_paused, hub_waiting,
                   hub_wire>>
    /\ UNCHANGED outsideHub

\* no task is ready: the event loop polls, and the paused sockets it finds
\* writable resume their waiting tasks, socket by socket in the order reported
Poll ==
    /\ hub_phase = "looping"
    /\ hub_running = 0
    /\ hub_ready = <<>>
    /\ \E order \in PollOrders :
          /\ \A i \in 1..Len(order) : hub_paused[order[i]]
          /\ hub_ready' = woken(order, hub_waiting)
          /\ hub_paused' = [s \in Sockets |->
                IF \E i \in 1..Len(order) : order[i] = s
                THEN FALSE ELSE hub_paused[s]]
          /\ hub_waiting' = [s \in Sockets |->
                IF \E i \in 1..Len(order) : order[i] = s
                THEN <<>> ELSE hub_waiting[s]]
    /\ UNCHANGED <<hub_sockets, hub_phase, hub_emitted, hub_running, hub_task,
                   hub_wire>>
    /\ UNCHANGED outsideHub

\* a client's socket is accepted and added to the session's set while no send
\* task runs; the slot is free of tasks suspended on the connection it held
HubConnect ==
    \E s \in Sockets :
        /\ hub_phase = "looping"
        /\ hub_running = 0
        /\ s \notin hub_sockets
        /\ hub_waiting[s] = <<>>
        /\ hub_sockets' = hub_sockets \cup {s}
        /\ hub_paused' = [hub_paused EXCEPT ![s] = FALSE]
        /\ UNCHANGED <<hub_phase, hub_emitted, hub_ready, hub_running, hub_task,
                       hub_waiting, hub_wire>>
        /\ UNCHANGED outsideHub

\* a client's socket handler ends and discards its socket from the session's
\* set while no send task runs
HubDisconnect ==
    \E s \in Sockets :
        /\ hub_phase = "looping"
        /\ hub_running = 0
        /\ s \in hub_sockets
        /\ hub_sockets' = hub_sockets \ {s}
        /\ UNCHANGED <<hub_phase, hub_emitted, hub_ready, hub_running, hub_task,
                       hub_paused, hub_waiting, hub_wire>>
        /\ UNCHANGED outsideHub

(***************************************************************************)
(* Chat-platform adapter (services/telegram.py): the streaming loop of     *)
(* _process_with_streaming and the fallback of process_update, one inbound *)
(* message (turn) after the other on one session.  Texts are sequences of  *)
(* words; "---" is the part separator.                                     *)
(***************************************************************************)
\* inbound messages followed
MaxTurns == 2

\* assistant messages streamed in one turn
MaxParts == 2

\* seconds followed
MaxTime == 2

dedup_window == 2

Hello == <<"Hello">>

World == <<"World">>

HelloWorld == <<"Hello", "World">>

\* the notice sent when the engine gives no response
Sorry == <<"Sorry,", "I'm", "experiencing", "technical", "difficulties.">>

\* an assistant message with the separator in it
HelloSepWorld == <<"Hello", "---", "World">>

\* what the upstream can stream as one assistant message
StreamTexts == {Hello, World, HelloWorld, HelloSepWorld}

\* what the engine can reply on the request/response path
NoResponse == <<"<no response>">>

Replies == {HelloSepWorld, HelloWorld, Hello, <<"---">>}

Texts == StreamTexts \cup {Sorry}

\* Python's "small in big" on texts
is_in(small, big) ==
    \E k \in 0..(Len(big) - Len(small)) :
        \A i \in 1..Len(small) : big[k + i] = small[i]

RECURSIVE split_from(_, _, _)
\* the parts of text from position i on, cur being the part collected so far
split_from(text, i, cur) ==
    IF i > Len(text)
    THEN IF cur = <<>> THEN <<>> ELSE <<cur>>
    ELSE IF text[i] = "---"
         THEN (IF cur = <<>> THEN <<>> ELSE <<cur>>) \o split_from(text, i + 1, <<>>)
         ELSE split_from(text, i + 1, Append(cur, text[i]))

\* _split_message_at_separator
split_message_at_separator(text) == split_from(text, 1, <<>>)

NotSent == -1

NoPending == [text |-> <<>>, at |-> NotSent]

\* the exact-duplicate test of the streaming loop
exact_duplicate(messages_sent, text, current_time) ==
    /\ messages_sent[text] # NotSent
    /\ current_time - messages_sent[text] < dedup_window

\* the substring tests of the streaming loop against the session's parts
substring_duplicate(parts, text) ==
    \E sent_part \in parts :
        \/ is_in(text, sent_part) /\ Len(text) < Len(sent_part)
        \/ is_in(sent_part, text) /\ Len(sent_part) < Len(text)

\* the tests of the fallback loop against the session's parts
fallback_duplicate(parts, part) ==
    \E sent_part \in parts :
        \/ is_in(part, sent_part) /\ Len(part) < Len(sent_part)
        \/ is_in(sent_part, part) /\ Len(sent_part) < Len(part)
        \/ part = sent_part

Sent(text) == [text |-> text, time |-> ad_now, turn |-> ad_turn]

\* a ConversationMessage of role assistant, or a logged failure, of the turn
Stored(text) == [text |-> text, turn |-> ad_turn]

\* db.commit(): the messages given become rows of the message log
commit(db, messages) == db \o [i \in 1..Len(messages) |-> Stored(messages[i])]

InitAdapter ==
    /\ ad_now = 0
    /\ ad_turn = 0
    /\ ad_pc = "idle"
    /\ ad_received = <<>>
    /\ ad_count = 0
    /\ ad_messages_sent = [t \in Texts |-> NotSent]
    /\ ad_parts = {}
    /\ ad_pending = NoPending
    /\ ad_fb_parts = <<>>
    /\ ad_log = <<>>
    /\ ad_to_save = <<>>
    /\ ad_session = <<>>
    /\ ad_db = <<>>
    /\ ad_errors = <<>>
    /\ ad_engine_turns = 0

\* time passes (every await of the adapter lets it)
Tick ==
    /\ ad_now < MaxTime
    /\ ad_now' = ad_now + 1
    /\ UNCHANGED <<ad_turn, ad_pc, ad_received, ad_count, ad_messages_sent,
                   ad_parts, ad_pending, ad_fb_parts, ad_log>>
    /\ UNCHANGED storeVars
    /\ UNCHANGED ad_engine_turns
    /\ UNCHANGED outsideAdapter

\* process_update reaches _process_with_streaming for a new inbound message: the
\* listener task and the engine task are created, and the engine runs a turn for
\* the request of the engine task unless the request fails
StartStreaming ==
    /\ ad_pc = "idle"
    /\ ad_turn < MaxTurns
    /\ ad_turn' = ad_turn + 1
    /\ ad_pc' = "streaming"
    /\ ad_received' = <<>>
    /\ ad_count' = 0
    /\ ad_messages_sent' = [t \in Texts |-> NotSent]
    /\ UNCHANGED <<ad_now, ad_parts, ad_pending, ad_fb_parts, ad_log>>
    /\ ad_to_save' = <<>>
    /\ ad_session' = <<>>
    /\ UNCHANGED <<ad_db, ad_errors>>
    /\ \E answered \in BOOLEAN : ad_engine_turns' = IF answered THEN 1 ELSE 0
    /\ UNCHANGED outsideAdapter

\* _collect_assistant_messages appends an assistant message streamed by the
\* engine's turn
Collect ==
    /\ ad_pc \in {"streaming", "sending"}
    /\ ad_engine_turns > 0
    /\ Len(ad_received) < MaxParts
    /\ \E text \in StreamTexts : ad_received' = Append(ad_received, text)
    /\ UNCHANGED <<ad_now, ad_turn, ad_pc, ad_count, ad_messages_sent, ad_parts,
                   ad_pending, ad_fb_parts, ad_log>>
    /\ UNCHANGED storeVars
    /\ UNCHANGED ad_engine_turns
    /\ UNCHANGED outsideAdapter

\* the streaming loop looks at the next received message: skipped as a
\* duplicate, or on its way to the platform with current_time taken
Examine ==
    /\ ad_pc = "streaming"
    /\ ad_count < Len(ad_received)
    /\ IF \/ exact_duplicate(ad_messages_sent, ad_received[ad_count + 1], ad_now)
          \/ substring_duplicate(ad_parts, ad_received[ad_count + 1])
       THEN /\ ad_count' = ad_count + 1
            /\ UNCHANGED <<ad_pc, ad_pending>>
       ELSE /\ ad_pc' = "sending"
            /\ ad_pending' = [text |-> ad_received[ad_count + 1], at |-> ad_now]
            /\ UNCHANGED ad_count
    /\ UNCHANGED <<ad_now, ad_turn, ad_received, ad_messages_sent, ad_parts,
                   ad_fb_parts, ad_log>>
    /\ UNCHANGED storeVars
    /\ UNCHANGED ad_engine_turns
    /\ UNCHANGED outsideAdapter

\* _send_telegram_message returns: the text is recorded under current_time
\* and its ConversationMessage is put on messages_to_save
StreamingSent ==
    /\ ad_pc = "sending"
    /\ ad_log' = Append(ad_log, Sent(ad_pending.text))
    /\ ad_messages_sent' = [ad_messages_sent EXCEPT ![ad_pending.text] = ad_pending.at]
    /\ ad_parts' = ad_parts \cup {ad_pending.text}
    /\ ad_count' = ad_count + 1
    /\ ad_pending' = NoPending
    /\ ad_pc' = "streaming"
    /\ UNCHANGED <<ad_now, ad_turn, ad_received, ad_fb_parts>>
    /\ ad_to_save' = Append(ad_to_save, ad_pending.text)
    /\ UNCHANGED <<ad_session, ad_db, ad_errors>>
    /\ UNCHANGED ad_engine_turns
    /\ UNCHANGED outsideAdapter

\* _send_telegram_message raises and logs the failure: streaming returns
\* False and messages_to_save is dropped with the call
StreamingSendRaises ==
    /\ ad_pc = "sending"
    /\ ad_pending' = NoPending
    /\ ad_pc' = "fallback"
    /\ UNCHANGED <<ad_now, ad_turn, ad_received, ad_count, ad_messages_sent,
                   ad_parts, ad_fb_parts, ad_log>>
    /\ ad_errors' = Append(ad_errors, Stored(ad_pending.text))
    /\ ad_to_save' = <<>>
    /\ UNCHANGED <<ad_session, ad_db>>
    /\ UNCHANGED ad_engine_turns
    /\ UNCHANGED outsideAdapter

\* the listener is done or the streaming timeout is over: messages_to_save
\* is committed
StreamingEnds ==
    /\ ad_pc = "streaming"
    /\ ad_pc' = IF ad_count > 0 THEN "idle" ELSE "fallback"
    /\ UNCHANGED <<ad_now, ad_turn, ad_received, ad_count, ad_messages_sent,
                   ad_parts, ad_pending, ad_fb_parts, ad_log>>
    /\ ad_db' = commit(ad_db, ad_to_save)
    /\ ad_to_save' = <<>>
    /\ UNCHANGED <<ad_session, ad_errors>>
    /\ UNCHANGED ad_engine_turns
    /\ UNCHANGED outsideAdapter

\* the fallback sends the inbound message to the engine again and gets its
\* answer: none (the notice is sent), or the reply of the turn the engine ran,
\* which is split into parts
FallbackReply ==
    /\ ad_pc = "fallback"
    /\ \E engine_response \in Replies \cup {NoResponse} :
          /\ IF engine_response = NoResponse
             THEN /\ ad_log' = Append(ad_log, Sent(Sorry))
                  /\ ad_pc' = "idle"
                  /\ UNCHANGED ad_fb_parts
             ELSE IF split_message_at_separator(engine_response) = <<>>
             THEN /\ ad_pc' = "idle"
                  /\ UNCHANGED <<ad_fb_parts, ad_log>>
             ELSE /\ ad_fb_parts' = split_message_at_separator(engine_response)
                  /\ ad_pc' = "fb_parts"
                  /\ UNCHANGED ad_log
          /\ ad_engine_turns' = IF engine_response = NoResponse
                                THEN ad_engine_turns
                                ELSE ad_engine_turns + 1
    /\ UNCHANGED <<ad_now, ad_turn, ad_received, ad_count, ad_messages_sent,
                   ad_parts, ad_pending>>
    /\ UNCHANGED storeVars
    /\ UNCHANGED outsideAdapter

\* the fallback loop looks at the next part: skipped as a duplicate, or
\* added to the db session and on its way to the platform
FallbackExamine ==
    /\ ad_pc = "fb_parts"
    /\ ad_fb_parts # <<>>
    /\ ad_fb_parts' = Tail(ad_fb_parts)
    /\ IF fallback_duplicate(ad_parts, Head(ad_fb_parts))
       THEN UNCHANGED <<ad_pc, ad_pending>>
       ELSE /\ ad_pc' = "fb_sending"
            /\ ad_pending' = [text |-> Head(ad_fb_parts), at |-> ad_now]
    /\ UNCHANGED <<ad_now, ad_turn, ad_received, ad_count, ad_messages_sent,
                   ad_parts, ad_log>>
    /\ ad_session' = IF fallback_duplicate(ad_parts, Head(ad_fb_parts))
                   THEN ad_session
                   ELSE Append(ad_session, Head(ad_fb_parts))
    /\ UNCHANGED <<ad_to_save, ad_db, ad_errors>>
    /\ UNCHANGED ad_engine_turns
    /\ UNCHANGED outsideAdapter

\* _send_telegram_message returns in the fallback loop
FallbackSent ==
    /\ ad_pc = "fb_sending"
    /\ ad_log' = Append(ad_log, Sent(ad_pending.text))
    /\ ad_parts' = ad_parts \cup {ad_pending.text}
    /\ ad_pending' = NoPending
    /\ ad_pc' = "fb_parts"
    /\ UNCHANGED <<ad_now, ad_turn, ad_received, ad_count, ad_messages_sent,
                   ad_fb_parts>>
    /\ UNCHANGED storeVars
    /\ UNCHANGED ad_engine_turns
    /\ UNCHANGED outsideAdapter

\* _send_telegram_message raises in the fallback loop and logs the failure:
\* process_update returns False and the db session is closed uncommitted
FallbackSendRaises ==
    /\ ad_pc = "fb_sending"
    /\ ad_pending' = NoPending
    /\ ad_fb_parts' = <<>>
    /\ ad_pc' = "idle"
    /\ UNCHANGED <<ad_now, ad_turn, ad_received, ad_count, ad_messages_sent,
                   ad_parts, ad_log>>
    /\ ad_errors' = Append(ad_errors, Stored(ad_pending.text))
    /\ ad_session' = <<>>
    /\ UNCHANGED <<ad_to_save, ad_db>>
    /\ UNCHANGED ad_engine_turns
    /\ UNCHANGED outsideAdapter

\* all parts of the fallback reply are done: the db session is committed
FallbackEnds ==
    /\ ad_pc = "fb_parts"
    /\ ad_fb_parts = <<>>
    /\ ad_pc' = "idle"
    /\ UNCHANGED <<ad_now, ad_turn, ad_received, ad_count, ad_messages_sent,
                   ad_parts, ad_pending, ad_fb_parts, ad_log>>
    /\ ad_db' = commit(ad_db, ad_session)
    /\ ad_session' = <<>>
    /\ UNCHANGED <<ad_to_save, ad_errors>>
    /\ UNCHANGED ad_engine_turns
    /\ UNCHANGED outsideAdapter

(***************************************************************************)
(* Single-flight gate of the adapter (services/telegram.py): every inbound *)
(* message runs process_update in a task of its own; the gate is the       *)
(* active_streaming_tasks entry of the session.  Waiting time is counted   *)
(* in sleeps of check_interval.                                            *)
(***************************************************************************)
\* inbound messages that arrive close together
MaxMessages == 3

\* seconds
wait_timeout == 60

\* check_interval is 0.5 s: sleeps per second
checks_per_second == 2

NoMessage == [pc |-> "absent", active_task |-> 0, elapsed |-> 0]

InitFlight ==
    /\ fl_msg = [m \in 1..MaxMessages |-> NoMessage]
    /\ fl_arrived = 0
    /\ fl_active = 0
    /\ fl_started = <<>>

\* asyncio.Task.done() of the task that runs process_update for message m
task_done(m) == fl_msg[m].pc = "done"

\* _process_with_streaming is entered by message m: it registers its task
enter_streaming(m, elapsed) ==
    /\ fl_msg' = [fl_msg EXCEPT ![m].pc = "streaming", ![m].elapsed = elapsed]
    /\ fl_active' = m
    /\ fl_started' = Append(fl_started, m)

\* process_update reaches the gate for the next inbound message: it waits
\* for a registered task that is not done, else it goes on to streaming
Arrive ==
    /\ fl_arrived < MaxMessages
    /\ fl_arrived' = fl_arrived + 1
    /\ IF fl_active # 0 /\ ~task_done(fl_active)
       THEN /\ fl_msg' = [fl_msg EXCEPT ![fl_arrived + 1] =
                    [pc |-> "sleeping", active_task |-> fl_active, elapsed |-> 0]]
            /\ UNCHANGED <<fl_active, fl_started>>
       ELSE enter_streaming(fl_arrived + 1, 0)
    /\ UNCHANGED outsideFlight

\* a waiting message wakes from asyncio.sleep(check_interval): it goes on to
\* streaming when the session has no entry, when the time is up or when the
\* task it has captured is done, else it sleeps again
WaitWakes ==
    \E m \in 1..MaxMessages :
        /\ fl_msg[m].pc = "sleeping"
        /\ IF \/ fl_active = 0
              \/ fl_msg[m].elapsed + 1 >= wait_timeout * checks_per_second
              \/ task_done(fl_msg[m].active_task)
           THEN enter_streaming(m, fl_msg[m].elapsed + 1)
           ELSE /\ fl_msg' = [fl_msg EXCEPT ![m].elapsed = @ + 1]
                /\ UNCHANGED <<fl_active, fl_started>>
        /\ UNCHANGED fl_arrived
        /\ UNCHANGED outsideFlight

\* _process_with_streaming returns: its finally removes the entry if it is
\* still this task's; without a message sent process_update goes on to the
\* fallback
StreamingReturns ==
    \E m \in 1..MaxMessages :
        /\ fl_msg[m].pc = "streaming"
        /\ fl_active' = IF fl_active = m THEN 0 ELSE fl_active
        /\ \E streaming_success \in BOOLEAN :
              fl_msg' = [fl_msg EXCEPT ![m].pc =
                            IF streaming_success THEN "done" ELSE "fallback"]
        /\ UNCHANGED <<fl_arrived, fl_started>>
        /\ UNCHANGED outsideFlight

\* the fallback is over: process_update returns
FallbackReturns ==
    \E m \in 1..MaxMessages :
        /\ fl_msg[m].pc = "fallback"
        /\ fl_msg' = [fl_msg EXCEPT ![m].pc = "done"]
        /\ UNCHANGED <<fl_arrived, fl_active, fl_started>>
        /\ UNCHANGED outsideFlight

(***************************************************************************)
(* Outbound connection pool (services/engine_ws_client.py), one session:   *)
(* callers of _ensure_connection (listeners, the send-queue task) and      *)
(* close_connection.  A connection is named after the caller that made it. *)
(***************************************************************************)
\* concurrent callers of _ensure_connection
MaxCallers == 2

\* close_connection calls
MaxCleanups == 1

max_retries == 3

Callers == 1..MaxCallers

\* locks the session can get: the first, and one after each removal
MaxLocks == 1 + MaxCleanups + MaxCallers

RECURSIVE Pow2(_)
\* 2 ** n
Pow2(n) == IF n = 0 THEN 1 ELSE 2 * Pow2(n - 1)

NoCall == [pc |-> "idle", retry_count |-> 0, lock |-> 0, held |-> {}, waits |-> <<>>]

InitPool ==
    /\ pool_caller = [c \in Callers |-> NoCall]
    /\ pool_conn = 0
    /\ pool_open = {}
    /\ pool_lock = 0
    /\ pool_locks_made = 0
    /\ pool_owner = [l \in 1..MaxLocks |-> 0]
    /\ pool_cleanups = 0

\* the lock _get_lock returns
got_lock == IF pool_lock = 0 THEN pool_locks_made + 1 ELSE pool_lock

\* _get_lock: the session's lock, created when the session has none
get_lock ==
    /\ pool_lock' = got_lock
    /\ pool_locks_made' = IF pool_lock = 0 THEN pool_locks_made + 1
                          ELSE pool_locks_made

\* the locks of caller c's frames are released when the call unwinds
released(c, locks) ==
    [l \in 1..MaxLocks |-> IF l \in locks THEN 0 ELSE pool_owner[l]]

\* a listener or the send-queue task calls _ensure_connection
Call(c) ==
    /\ pool_caller[c].pc = "idle"
    /\ get_lock
    /\ pool_caller' = [pool_caller EXCEPT ![c].pc = "acquire", ![c].lock = got_lock]
    /\ UNCHANGED <<pool_conn, pool_open, pool_owner, pool_cleanups>>
    /\ UNCHANGED outsidePool

\* "async with lock" is entered: an open connection of the pool is returned,
\* one that is no longer open is cleaned up (the lock entry goes with it),
\* and without a usable connection one is being created
Acquire(c) ==
    /\ pool_caller[c].pc = "acquire"
    /\ pool_owner[pool_caller[c].lock] = 0
    /\ IF pool_conn # 0 /\ pool_conn \in pool_open
       THEN /\ pool_caller' = [pool_caller EXCEPT ![c].pc = "returned", ![c].held = {}]
            /\ pool_owner' = released(c, pool_caller[c].held)
            /\ UNCHANGED <<pool_conn, pool_lock>>
       ELSE /\ pool_caller' = [pool_caller EXCEPT
                    ![c].pc = "connecting",
                    ![c].held = @ \cup {pool_caller[c].lock}]
            /\ pool_owner' = [pool_owner EXCEPT ![pool_caller[c].lock] = c]
            /\ pool_conn' = 0
            /\ pool_lock' = IF pool_conn # 0 THEN 0 ELSE pool_lock
    /\ UNCHANGED <<pool_open, pool_locks_made, pool_cleanups>>
    /\ UNCHANGED outsidePool

\* websockets.connect returns: the connection is stored and returned
ConnectSucceeds(c) ==
    /\ pool_caller[c].pc = "connecting"
    /\ pool_conn' = c
    /\ pool_open' = pool_open \cup {c}
    /\ pool_caller' = [pool_caller EXCEPT ![c].pc = "returned", ![c].held = {}]
    /\ pool_owner' = released(c, pool_caller[c].held)
    /\ UNCHANGED <<pool_lock, pool_locks_made, pool_cleanups>>
    /\ UNCHANGED outsidePool

\* websockets.connect fails or times out: sleep 2 ** retry_count seconds
\* while retries are left, else the failure is raised
ConnectFails(c) ==
    /\ pool_caller[c].pc = "connecting"
    /\ IF pool_caller[c].retry_count < max_retries
       THEN /\ pool_caller' = [pool_caller EXCEPT
                    ![c].pc = "backoff",
                    ![c].waits = Append(@, Pow2(pool_caller[c].retry_count))]
            /\ UNCHANGED pool_owner
       ELSE /\ pool_caller' = [pool_caller EXCEPT ![c].pc = "raised", ![c].held = {}]
            /\ pool_owner' = released(c, pool_caller[c].held)
    /\ UNCHANGED <<pool_conn, pool_open, pool_lock, pool_locks_made, pool_cleanups>>
    /\ UNCHANGED outsidePool

\* the sleep is over: _ensure_connection calls itself with retry_count + 1,
\* inside the "async with lock" of the calling frame
Retry(c) ==
    /\ pool_caller[c].pc = "backoff"
    /\ get_lock
    /\ pool_caller' = [pool_caller EXCEPT
            ![c].pc = "acquire",
            ![c].retry_count = @ + 1,
            ![c].lock = got_lock]
    /\ UNCHANGED <<pool_conn, pool_open, pool_owner, pool_cleanups>>
    /\ UNCHANGED outsidePool

\* the engine closes a connection
RemoteCloses ==
    /\ \E k \in pool_open : pool_open' = pool_open \ {k}
    /\ UNCHANGED <<pool_caller, pool_conn, pool_lock, pool_locks_made, pool_owner,
                   pool_cleanups>>
    /\ UNCHANGED outsidePool

\* close_connection: _do_cleanup closes and removes the session's
\* connection and removes the session's lock entry
CloseConnection ==
    /\ pool_cleanups < MaxCleanups
    /\ pool_cleanups' = pool_cleanups + 1
    /\ pool_open' = pool_open \ {pool_conn}
    /\ pool_conn' = 0
    /\ pool_lock' = 0
    /\ UNCHANGED <<pool_caller, pool_locks_made, pool_owner>>
    /\ UNCHANGED outsidePool

\* what caller c can do
CallerStep(c) ==
    \/ Call(c) \/ Acquire(c) \/ ConnectSucceeds(c) \/ ConnectFails(c) \/ Retry(c)

\* ---------------------------------------------------------------------------
\* The outbound send queue (services/engine_ws_client.py)
\* ---------------------------------------------------------------------------

MaxSends == 3

\* user messages are numbered in the order send_user_message is called
SendIds == 1..MaxSends

\* every call and every connection attempt creates at most one of each
SenderIds == 1..(2 * MaxSends)

Shutdown == 0

NoSender == [pc |-> "none", queue |-> 0, msg |-> 0, conn |-> 0]

InitSend ==
    /\ sq_call = [m \in SendIds |-> "none"]
    /\ sq_queue = [q \in SenderIds |-> <<>>]
    /\ sq_queues_made = 0
    /\ sq_send_queue = 0
    /\ sq_task = [t \in SenderIds |-> NoSender]
    /\ sq_send_task = 0
    /\ sq_conn = 0
    /\ sq_conns_made = 0
    /\ sq_open = {}
    /\ sq_cleanups = 0
    /\ sq_wire = <<>>

sender_running(tasks, t) == t # 0 /\ tasks[t].pc # "done"

tasks_made(tasks) == Cardinality({t \in SenderIds : tasks[t].pc # "none"})

\* asyncio.create_task(self._process_send_queue(session_id))
start_sender(tasks) ==
    [tasks EXCEPT ![tasks_made(tasks) + 1] = [NoSender EXCEPT !.pc = "start"]]

\* send_user_message up to "await future": the queue and the sender task are made
\* when absent, and the message is put on the session's queue
SendUserMessage ==
    \E m \in SendIds :
        /\ sq_call[m] = "none"
        /\ \A earlier \in 1..(m - 1) : sq_call[earlier] # "none"
        /\ LET made == sq_send_queue = 0
               q == IF made THEN sq_queues_made + 1 ELSE sq_send_queue
               starts == ~sender_running(sq_task, sq_send_task)
           IN  /\ sq_queues_made' = IF made THEN q ELSE sq_queues_made
               /\ sq_send_queue' = q
               /\ sq_task' = IF starts THEN start_sender(sq_task) ELSE sq_task
               /\ sq_send_task' = IF starts THEN tasks_made(sq_task) + 1 ELSE sq_send_task
               /\ sq_queue' = [sq_queue EXCEPT ![q] = Append(@, m)]
        /\ sq_call' = [sq_call EXCEPT ![m] = "waiting"]
        /\ UNCHANGED <<sq_conn, sq_conns_made, sq_open, sq_cleanups, sq_wire>>
        /\ UNCHANGED outsideSend

\* _process_send_queue up to its loop: the task keeps the queue it finds
SenderStarts(t) ==
    /\ sq_task[t].pc = "start"
    /\ LET made == sq_send_queue = 0
           q == IF made THEN sq_queues_made + 1 ELSE sq_send_queue
       IN  /\ sq_queues_made' = IF made THEN q ELSE sq_queues_made
           /\ sq_send_queue' = q
           /\ sq_task' = [sq_task EXCEPT ![t].pc = "idle", ![t].queue = q]
    /\ UNCHANGED <<sq_call, sq_queue, sq_send_task, sq_conn, sq_conns_made, sq_open,
                   sq_cleanups, sq_wire>>
    /\ UNCHANGED outsideSend

\* "message_data = await queue.get()": the shutdown item ends the task
SenderGets(t) ==
    /\ sq_task[t].pc = "idle"
    /\ sq_queue[sq_task[t].queue] # <<>>
    /\ LET item == Head(sq_queue[sq_task[t].queue])
       IN  sq_task' = IF item = Shutdown
                      THEN [sq_task EXCEPT ![t].pc = "done"]
                      ELSE [sq_task EXCEPT ![t].pc = "ensuring", ![t].msg = item]
    /\ sq_queue' = [sq_queue EXCEPT ![sq_task[t].queue] = Tail(@)]
    /\ UNCHANGED <<sq_call, sq_queues_made, sq_send_queue, sq_send_task, sq_conn,
                   sq_conns_made, sq_open, sq_cleanups, sq_wire>>
    /\ UNCHANGED outsideSend

\* _do_cleanup as far as the send queue goes, run by task "by" (0: by no sender
\* task): the registered sender task gets the shutdown item and is cancelled.  A
\* task that cancels itself catches the cancellation at "await task" and goes on.
queue_after_cleanup ==
    IF sender_running(sq_task, sq_send_task) /\ sq_send_queue # 0
    THEN [sq_queue EXCEPT ![sq_send_queue] = Append(@, Shutdown)]
    ELSE sq_queue

tasks_after_cleanup(by) ==
    IF sender_running(sq_task, sq_send_task) /\ sq_send_task # by
    THEN [sq_task EXCEPT ![sq_send_task].pc = "done"]
    ELSE sq_task

\* _ensure_connection finds the stored connection healthy and hands it out
SenderReuses(t) ==
    /\ sq_task[t].pc = "ensuring"
    /\ sq_conn \in sq_open
    /\ sq_task' = [sq_task EXCEPT ![t].pc = "sending", ![t].conn = sq_conn]
    /\ UNCHANGED <<sq_call, sq_queue, sq_queues_made, sq_send_queue, sq_send_task,
                   sq_conn, sq_conns_made, sq_open, sq_cleanups, sq_wire>>
    /\ UNCHANGED outsideSend

\* _ensure_connection finds no healthy connection: an unhealthy one is cleaned up
\* first, then a connection is made and, with no sender task registered, a sender
\* task is started
SenderConnects(t) ==
    /\ sq_task[t].pc = "ensuring"
    /\ sq_conn \notin sq_open
    /\ LET cleans == sq_conn # 0
           tasks == IF cleans THEN tasks_after_cleanup(t) ELSE sq_task
           registered == IF cleans THEN 0 ELSE sq_send_task
           starts == ~sender_running(tasks, registered)
           started == IF starts THEN start_sender(tasks) ELSE tasks
           c == sq_conns_made + 1
       IN  /\ sq_queue' = IF cleans THEN queue_after_cleanup ELSE sq_queue
           /\ sq_send_queue' = IF cleans THEN 0 ELSE sq_send_queue
           /\ sq_send_task' = IF starts THEN tasks_made(tasks) + 1 ELSE registered
           /\ sq_task' = [started EXCEPT ![t].pc = "sending", ![t].conn = c]
           /\ sq_conn' = c
           /\ sq_conns_made' = c
           /\ sq_open' = sq_open \cup {c}
    /\ UNCHANGED <<sq_call, sq_queues_made, sq_cleanups, sq_wire>>
    /\ UNCHANGED outsideSend

\* "await connection.send(...)" returns: future.set_result(True)
SenderWrites(t) ==
    /\ sq_task[t].pc = "sending"
    /\ sq_task[t].conn \in sq_open
    /\ sq_wire' = Append(sq_wire, sq_task[t].msg)
    /\ sq_call' = [sq_call EXCEPT ![sq_task[t].msg] = "sent"]
    /\ sq_task' = [sq_task EXCEPT ![t].pc = "idle", ![t].msg = 0, ![t].conn = 0]
    /\ UNCHANGED <<sq_queue, sq_queues_made, sq_send_queue, sq_send_task, sq_conn,
                   sq_conns_made, sq_open, sq_cleanups>>
    /\ UNCHANGED outsideSend

\* "await connection.send(...)" raises on a closed connection: future.set_exception
SenderWriteRaises(t) ==
    /\ sq_task[t].pc = "sending"
    /\ sq_task[t].conn \notin sq_open
    /\ sq_call' = [sq_call EXCEPT ![sq_task[t].msg] = "failed"]
    /\ sq_task' = [sq_task EXCEPT ![t].pc = "idle", ![t].msg = 0, ![t].conn = 0]
    /\ UNCHANGED <<sq_queue, sq_queues_made, sq_send_queue, sq_send_task, sq_conn,
                   sq_conns_made, sq_open, sq_cleanups, sq_wire>>
    /\ UNCHANGED outsideSend

\* the engine, or the network, closes the stored connection
SendRemoteCloses ==
    /\ sq_conn \in sq_open
    /\ sq_open' = sq_open \ {sq_conn}
    /\ UNCHANGED <<sq_call, sq_queue, sq_queues_made, sq_send_queue, sq_task,
                   sq_send_task, sq_conn, sq_conns_made, sq_cleanups, sq_wire>>
    /\ UNCHANGED outsideSend

\* close_connection, called from outside the sender tasks: _do_cleanup
SendCloseConnection ==
    /\ sq_cleanups < MaxCleanups
    /\ sq_cleanups' = sq_cleanups + 1
    /\ sq_queue' = queue_after_cleanup
    /\ sq_task' = tasks_after_cleanup(0)
    /\ sq_send_task' = 0
    /\ sq_send_queue' = 0
    /\ sq_open' = sq_open \ {sq_conn}
    /\ sq_conn' = 0
    /\ UNCHANGED <<sq_call, sq_queues_made, sq_conns_made, sq_wire>>
    /\ UNCHANGED outsideSend

\* the connection attempt of _ensure_connection fails: after the backoff sleep the
\* retry waits for the session's lock, which the failed attempt still holds
SenderConnectFails(t) ==
    /\ sq_task[t].pc = "ensuring"
    /\ sq_conn \notin sq_open
    /\ LET cleans == sq_conn # 0
           tasks == IF cleans THEN tasks_after_cleanup(t) ELSE sq_task
       IN  /\ sq_queue' = IF cleans THEN queue_after_cleanup ELSE sq_queue
           /\ sq_send_queue' = IF cleans THEN 0 ELSE sq_send_queue
           /\ sq_send_task' = IF cleans THEN 0 ELSE sq_send_task
           /\ sq_task' = [tasks EXCEPT ![t].pc = "stuck"]
           /\ sq_conn' = 0
    /\ UNCHANGED <<sq_call, sq_queues_made, sq_conns_made, sq_open, sq_cleanups, sq_wire>>
    /\ UNCHANGED outsideSend

\* ---------------------------------------------------------------------------
\* The outbound reader and its listeners (services/engine_ws_client.py)
\* ---------------------------------------------------------------------------

MaxListeners == 2

MaxReads == 3

Listeners == 1..MaxListeners

WireEvent(event_type, message) == [event_type |-> event_type, message |-> message]

\* the None item that tells a listener its connection is gone
Closed == WireEvent("<None>", <<>>)

\* what the engine's socket can deliver: events and pings
WireMessages ==
    { WireEvent("assistant_message", <<"h", "i">>),
      WireEvent("assistant_message", <<"y", "o">>),
      WireEvent("assistant_message", <<" ">>),
      WireEvent("node_entered", <<>>),
      WireEvent("message_processing_complete", <<>>),
      WireEvent("<ping>", <<>>) }

is_event(w) == w.event_type # "<ping>"

ends_reading(w) ==
    w.event_type \in {"session_ended", "error", "message_processing_complete"}

\* str.strip()
strip(s) == Reverse(StripLeft(Reverse(StripLeft(s))))

NoListener == [pc |-> "none", queue |-> <<>>, got |-> <<>>, yielded |-> <<>>]

InitListen ==
    /\ ls_listener = [l \in Listeners |-> NoListener]
    /\ ls_queues = <<>>
    /\ ls_listed = FALSE
    /\ ls_conn = "none"
    /\ ls_reader = "none"
    /\ ls_delayed = FALSE
    /\ ls_cleanups = 0
    /\ ls_read = <<>>

listed(queues) == {queues[i] : i \in 1..Len(queues)}

\* the buggy variant: only the first queue of the list gets the item
put_on_first(listeners, queues, item) ==
    [l \in Listeners |->
        IF queues # <<>> /\ l = Head(queues)
        THEN [listeners[l] EXCEPT !.queue = Append(@, item), !.got = Append(@, item)]
        ELSE listeners[l]]

\* "for queue in self._message_queues[session_id]: await queue.put(item)"
put_on_each(listeners, queues, item) ==
    [l \in Listeners |->
        IF l \in listed(queues)
        THEN [listeners[l] EXCEPT !.queue = Append(@, item), !.got = Append(@, item)]
        ELSE listeners[l]]

\* the finally of listen_for_assistant_messages: the queue leaves the list, and with
\* no queue left in the list a delayed cleanup is scheduled
unregistered(l) == SelectSeq(ls_queues, LAMBDA q : q # l)

Unregister(l) ==
    /\ ls_queues' = unregistered(l)
    /\ ls_delayed' = (ls_delayed \/ (ls_listed /\ unregistered(l) = <<>>))
    /\ UNCHANGED ls_listed

\* listen_for_assistant_messages up to its "await self._ensure_connection"
Listen(l) ==
    /\ ls_listener[l].pc = "none"
    /\ \A earlier \in 1..(l - 1) : ls_listener[earlier].pc # "none"
    /\ ls_listener' = [ls_listener EXCEPT ![l].pc = "registered"]
    /\ ls_queues' = Append(ls_queues, l)
    /\ ls_listed' = TRUE
    /\ UNCHANGED <<ls_conn, ls_reader, ls_delayed, ls_cleanups, ls_read>>
    /\ UNCHANGED outsideListen

\* _ensure_connection hands the listener the healthy stored connection
ListenerReuses(l) ==
    /\ ls_listener[l].pc = "registered"
    /\ ls_conn = "open"
    /\ ls_listener' = [ls_listener EXCEPT ![l].pc = "listening"]
    /\ UNCHANGED <<ls_queues, ls_listed, ls_conn, ls_reader, ls_delayed, ls_cleanups,
                   ls_read>>
    /\ UNCHANGED outsideListen

\* _ensure_connection finds no healthy connection: an unhealthy one is cleaned up
\* first (every listed queue gets the None item and the list goes), then a
\* connection is made and its reader task started
ListenerConnects(l) ==
    /\ ls_listener[l].pc = "registered"
    /\ ls_conn # "open"
    /\ LET cleans == ls_conn = "closed"
           listeners == IF cleans THEN put_on_each(ls_listener, ls_queues, Closed)
                                  ELSE ls_listener
       IN  /\ ls_listener' = [listeners EXCEPT ![l].pc = "listening"]
           /\ ls_queues' = IF cleans THEN <<>> ELSE ls_queues
           /\ ls_listed' = IF cleans THEN FALSE ELSE ls_listed
           /\ ls_delayed' = IF cleans THEN FALSE ELSE ls_delayed
    /\ ls_conn' = "open"
    /\ ls_reader' = "reading"
    /\ UNCHANGED <<ls_cleanups, ls_read>>
    /\ UNCHANGED outsideListen

\* the connection attempt fails: the retry waits for the lock the attempt holds
ListenerConnectFails(l) ==
    /\ ls_listener[l].pc = "registered"
    /\ ls_conn # "open"
    /\ LET cleans == ls_conn = "closed"
           listeners == IF cleans THEN put_on_each(ls_listener, ls_queues, Closed)
                                  ELSE ls_listener
       IN  /\ ls_listener' = [listeners EXCEPT ![l].pc = "stuck"]
           /\ ls_queues' = IF cleans THEN <<>> ELSE ls_queues
           /\ ls_listed' = IF cleans THEN FALSE ELSE ls_listed
           /\ ls_delayed' = IF cleans THEN FALSE ELSE ls_delayed
    /\ ls_conn' = "none"
    /\ ls_reader' = IF ls_conn = "closed" THEN "none" ELSE ls_reader
    /\ UNCHANGED <<ls_cleanups, ls_read>>
    /\ UNCHANGED outsideListen

\* the text a listener yields for an item of its queue, if it yields one
yields(event) ==
    IF event.event_type = "assistant_message" /\ strip(event.message) # <<>>
    THEN <<event.message>>
    ELSE <<>>

\* "event = await queue.get()": None ends the listener, an assistant message with
\* text is yielded
ListenerGets(l) ==
    /\ ls_listener[l].pc = "listening"
    /\ ls_listener[l].queue # <<>>
    /\ LET event == Head(ls_listener[l].queue)
       IN  IF event = Closed
           THEN /\ ls_listener' = [ls_listener EXCEPT ![l].pc = "ended", ![l].queue = Tail(@)]
                /\ Unregister(l)
           ELSE /\ ls_listener' = [ls_listener EXCEPT ![l].queue = Tail(@),
                                                      ![l].yielded = @ \o yields(event)]
                /\ UNCHANGED <<ls_queues, ls_listed, ls_delayed>>
    /\ UNCHANGED <<ls_conn, ls_reader, ls_cleanups, ls_read>>
    /\ UNCHANGED outsideListen

\* the consumer of the generator stops or is cancelled
ListenerCloses(l) ==
    /\ ls_listener[l].pc \in {"registered", "listening"}
    /\ ls_listener' = [ls_listener EXCEPT ![l].pc = "ended"]
    /\ Unregister(l)
    /\ UNCHANGED <<ls_conn, ls_reader, ls_cleanups, ls_read>>
    /\ UNCHANGED outsideListen

\* one round of "async for message in websocket" in _read_connection
ReaderReads ==
    \E w \in WireMessages :
        /\ ls_reader = "reading"
        /\ ls_conn = "open"
        /\ Len(ls_read) < MaxReads
        /\ ls_read' = Append(ls_read, [message |-> w, queues |-> ls_queues])
        /\ ls_listener' = IF is_event(w) /\ ls_listed
                          THEN put_on_each(ls_listener, ls_queues, w)
                          ELSE ls_listener
        /\ ls_reader' = IF ends_reading(w) THEN "ended" ELSE ls_reader
        /\ ls_delayed' = (ls_delayed \/ ends_reading(w))
        /\ UNCHANGED <<ls_queues, ls_listed, ls_conn, ls_cleanups>>
        /\ UNCHANGED outsideListen

\* the socket is closed by the engine or the network, or the reader's time is up:
\* the reader task ends and schedules the delayed cleanup
ReaderEnds ==
    \E closed \in BOOLEAN :
        /\ ls_reader = "reading"
        /\ ls_reader' = "ended"
        /\ ls_conn' = IF closed THEN "closed" ELSE ls_conn
        /\ ls_delayed' = TRUE
        /\ UNCHANGED <<ls_listener, ls_queues, ls_listed, ls_cleanups, ls_read>>
        /\ UNCHANGED outsideListen

\* _do_cleanup: the connection and its reader go, every listed queue gets None
\* a reader task cancelled here schedules a delayed cleanup in its finally
DoListenCleanup ==
    /\ ls_listener' = IF ls_listed THEN put_on_each(ls_listener, ls_queues, Closed)
                                   ELSE ls_listener
    /\ ls_queues' = <<>>
    /\ ls_listed' = FALSE
    /\ ls_conn' = "none"
    /\ ls_reader' = "none"
    /\ ls_delayed' = (ls_reader = "reading")

\* the delayed cleanup fires: it cleans up unless a queue is listed
DelayedCleanup ==
    /\ ls_delayed
    /\ IF ls_listed /\ ls_queues # <<>>
       THEN /\ ls_delayed' = FALSE
            /\ UNCHANGED <<ls_listener, ls_queues, ls_listed, ls_conn, ls_reader>>
       ELSE DoListenCleanup
    /\ UNCHANGED <<ls_cleanups, ls_read>>
    /\ UNCHANGED outsideListen

\* close_connection: any scheduled cleanup is cancelled and _do_cleanup runs
ListenCloseConnection ==
    /\ ls_cleanups < MaxCleanups
    /\ ls_cleanups' = ls_cleanups + 1
    /\ DoListenCleanup
    /\ UNCHANGED ls_read
    /\ UNCHANGED outsideListen

\* ---------------------------------------------------------------------------
\* One request carried to its end (api/routes/chat.py, api/routes/ws.py)
\* ---------------------------------------------------------------------------

\* the outcomes of the outside calls kept for the long runs: the generator
\* answers, the selector picks the first exit or fails, should_loop returns
AdvanceEnvs(f, s) ==
    { env \in Envs(f, s) :
        /\ env.gen = Answer("ok", "ok")
        /\ env.sel \in {Answer("ok", "ab"), Answer("fail", "")}
        /\ env.loop # "raise" }

\* the first run_step of the only request
FirstStep ==
    /\ pc = "idle"
    /\ steps = 0
    /\ \E user_message \in UserMessages :
         \E env \in AdvanceEnvs(flow, load_or_new(flow, saved)) :
            take_step(load_or_new(flow, saved), user_message, env,
                      run_step(flow, load_or_new(flow, saved), user_message, env))
    /\ auto_advance_count' = 0

\* the buggy variant: the loop has no limit
AutoAdvanceGuard_NoLimit ==
    /\ pc = "advancing"
    /\ HasNode(flow, session.current_node_id)
    /\ get_node_by_id(flow, session.current_node_id).skip_user_response

\* "while auto_advance_count < max_auto_advances" and the test on the current node
AutoAdvanceGuard ==
    /\ pc = "advancing"
    /\ auto_advance_count < max_auto_advances
    /\ HasNode(flow, session.current_node_id)
    /\ get_node_by_id(flow, session.current_node_id).skip_user_response

\* one iteration of the auto-advance loop, however many came before
NextAutoAdvance ==
    /\ AutoAdvanceGuard
    /\ \E env \in AdvanceEnvs(flow, session) :
          take_step(session, AUTO_ADVANCE, env,
                    run_step(flow, session, AUTO_ADVANCE, env))
    /\ auto_advance_count' = auto_advance_count + 1

(***************************************************************************)
(* Loop evaluator (core/loop_evaluator.py).  The texts should_loop looks   *)
(* into are character sequences; None is a value of its own.              *)
(***************************************************************************)
None == [is_none |-> TRUE, text |-> <<>>]

Str(chars) == [is_none |-> FALSE, text |-> chars]

\* Python's truth value of an Optional[str]
truthy(s) == ~s.is_none /\ s.text # <<>>

Whitespace == {" ", "\n", "\t"}

RECURSIVE lstrip(_)
lstrip(s) == IF s # <<>> /\ Head(s) \in Whitespace THEN lstrip(Tail(s)) ELSE s

\* str.strip()
str_strip(s) == Reverse(lstrip(Reverse(lstrip(s))))

\* str.upper(), per character
upper_char(c) ==
    CASE c = "l" -> "L"
      [] c = "o" -> "O"
      [] c = "p" -> "P"
      [] c = "r" -> "R"
      [] c = "c" -> "C"
      [] c = "e" -> "E"
      [] c = "d" -> "D"
      [] c = "n" -> "N"
      [] OTHER   -> c

str_upper(s) == [i \in 1..Len(s) |-> upper_char(s[i])]

\* needle in hay
str_in(needle, hay) ==
    \E i \in 1..(Len(hay) - Len(needle) + 1) :
        SubSeq(hay, i, i + Len(needle) - 1) = needle

LOOP == <<"L", "O", "O", "P">>

PROCEED == <<"P", "R", "O", "C", "E", "E", "D">>

\* the buggy variant: PROCEED in the answer is not looked at
parse_evaluation_response_AnyLoop(response) ==
    /\ truthy(response)
    /\ str_in(LOOP, str_upper(str_strip(response.text)))

\* _parse_evaluation_response (lines 174-202)
parse_evaluation_response(response) ==
    IF ~truthy(response) THEN FALSE
    ELSE IF /\ str_in(LOOP, str_upper(str_strip(response.text)))
            /\ ~str_in(PROCEED, str_upper(str_strip(response.text)))
         THEN TRUE
         ELSE FALSE

LoopNode(loop_enabled, loop_condition) ==
    [loop_enabled |-> loop_enabled, loop_condition |-> loop_condition]

LoopConditions ==
    { None, Str(<<>>), Str(<<" ", " ">>), Str(<<"\n">>), Str(<<"c">>),
      Str(<<" ", "c", " ">>) }

LoopNodes == {LoopNode(e, c) : e \in BOOLEAN, c \in LoopConditions}

\* what the LLM may say when asked for LOOP or PROCEED
LoopResponses ==
    { None, Str(<<>>),
      Str(<<"L", "O", "O", "P">>),
      Str(<<"l", "o", "o", "p">>),
      Str(<<" ", "L", "o", "o", "p", ".", "\n">>),
      Str(<<"L", "O", "O", "P", "E", "D">>),
      Str(<<"P", "R", "O", "C", "E", "E", "D">>),
      Str(<<"p", "r", "o", "c", "e", "e", "d">>),
      Str(<<"L", "O", "O", "P", " ", "p", "r", "o", "c", "e", "e", "d">>),
      Str(<<"L", "O", " ", "O", "P">>),
      Str(<<"n", "o">>),
      Str(<<" ">>) }

\* what one should_loop call meets: _build_evaluation_prompt returns or
\* raises; llm.chat raises, reports success=false, or succeeds with a text
LoopEnv(prompt, kind, response) ==
    [prompt |-> prompt, kind |-> kind, response |-> response]

LoopEnvs ==
    {LoopEnv(p, "ok", r) : p \in {"ok", "raise"}, r \in LoopResponses}
    \cup {LoopEnv(p, k, None) : p \in {"ok", "raise"}, k \in {"fail", "raise"}}

LoopResult(result, llm_calls) == [result |-> result, llm_calls |-> llm_calls]

\* should_loop (lines 17-122): the boolean and the llm.chat calls made
should_loop(node, env) ==
    IF ~node.loop_enabled THEN LoopResult(FALSE, 0)
    ELSE IF ~truthy(node.loop_condition)
            \/ str_strip(node.loop_condition.text) = <<>>
    THEN LoopResult(FALSE, 0)
    ELSE IF env.prompt = "raise" THEN LoopResult(FALSE, 0)
    ELSE IF env.kind = "raise" THEN LoopResult(FALSE, 1)
    ELSE IF env.kind = "fail" THEN LoopResult(FALSE, 1)
    ELSE LoopResult(parse_evaluation_response(env.response), 1)

InitLoop ==
    /\ le_node = LoopNode(FALSE, None)
    /\ le_env = LoopEnv("ok", "ok", None)
    /\ le_result = FALSE
    /\ le_calls = 0
    /\ le_done = FALSE

\* one call of should_loop
ShouldLoop ==
    \E node \in LoopNodes, env \in LoopEnvs :
        /\ le_node' = node
        /\ le_env' = env
        /\ le_result' = should_loop(node, env).result
        /\ le_calls' = should_loop(node, env).llm_calls
        /\ le_done' = TRUE
        /\ UNCHANGED outsideLoop

(***************************************************************************)
(* Variable extractor (core/variable_extractor.py): extract_variables and  *)
(* its retry loop                                                          *)
(***************************************************************************)
extract_max_retries == 2

\* what _parse_extraction_response may return: no value, or a value
ParsedMappings == {<<>>, [user_name |-> "v1"]}

\* what one attempt met
Attempt(kind, values) == [kind |-> kind, values |-> values]

\* the early returns before the loop (lines 31-59)
EarlyReturns ==
    {"no_extract_vars", "no_history", "no_user_message", "invalid_input",
     "prompt_raises"}

InitExtract ==
    /\ ex_pc = "idle"
    /\ ex_attempt = 0
    /\ ex_calls = 0
    /\ ex_log = <<>>
    /\ ex_result = <<>>

\* the buggy variant: one attempt more
attempts_left_OneMore(attempt) == attempt <= extract_max_retries

\* "attempt < max_retries": another attempt follows
attempts_left(attempt) == attempt < extract_max_retries

\* extract_variables returns {} before the loop
ExtractReturnsEarly ==
    /\ ex_pc = "idle"
    /\ \E why \in EarlyReturns :
          ex_log' = <<Attempt(why, <<>>)>>
    /\ ex_pc' = "returned"
    /\ ex_result' = <<>>
    /\ UNCHANGED <<ex_attempt, ex_calls>>
    /\ UNCHANGED outsideExtract

\* the prompt is built and the loop is entered with attempt = 0
ExtractEntersLoop ==
    /\ ex_pc = "idle"
    /\ ex_pc' = "looping"
    /\ UNCHANGED <<ex_attempt, ex_calls, ex_log, ex_result>>
    /\ UNCHANGED outsideExtract

\* an attempt that gave nothing: the next attempt, or {} after the last
failed_attempt(kind, called) ==
    /\ ex_pc = "looping"
    /\ ex_log' = Append(ex_log, Attempt(kind, <<>>))
    /\ ex_calls' = ex_calls + called
    /\ IF attempts_left(ex_attempt)
       THEN /\ ex_attempt' = ex_attempt + 1
            /\ UNCHANGED <<ex_pc, ex_result>>
       ELSE /\ ex_pc' = "returned"
            /\ ex_result' = <<>>
            /\ UNCHANGED ex_attempt

\* get_llm() raises (no provider): except Exception (lines 110-114)
AttemptWithoutLlm ==
    /\ failed_attempt("get_llm_raises", 0)
    /\ UNCHANGED outsideExtract

\* llm.chat reports success=false (lines 79-87)
AttemptFails ==
    /\ failed_attempt("llm_failed", 1)
    /\ UNCHANGED outsideExtract

\* llm.chat gives an empty response (lines 89-94)
AttemptEmpty ==
    /\ failed_attempt("empty_response", 1)
    /\ UNCHANGED outsideExtract

\* _parse_extraction_response raises (lines 98, 105-114)
AttemptUnparseable ==
    /\ failed_attempt("parse_error", 1)
    /\ UNCHANGED outsideExtract

\* the response parses: break, and the mapping is returned (lines 98-103, 116-118)
AttemptParses ==
    /\ ex_pc = "looping"
    /\ \E values \in ParsedMappings :
          /\ ex_log' = Append(ex_log, Attempt("parsed", values))
          /\ ex_result' = values
    /\ ex_calls' = ex_calls + 1
    /\ ex_pc' = "returned"
    /\ UNCHANGED ex_attempt
    /\ UNCHANGED outsideExtract

(***************************************************************************)
(* Telegram webhook (messaging-gateway api/webhooks.py): the handler, the  *)
(* response, and the background task run after the response                *)
(***************************************************************************)
MaxWebhooks == 2

\* what one request meets: the bot query, the update in the body, the flow
\* query, the format conversion and the scheduling
WebhookEnv(bot, update, flow_data, format, schedule) ==
    [bot |-> bot, update |-> update, flow_data |-> flow_data, format |-> format,
     schedule |-> schedule]

\* a later step is only met when the steps before it went through
WebhookEnvs ==
    { WebhookEnv("raises", "text", "found", "ok", "ok"),
      WebhookEnv("missing", "text", "found", "ok", "ok"),
      WebhookEnv("active", "bad_json", "found", "ok", "ok"),
      WebhookEnv("active", "not_an_update", "found", "ok", "ok"),
      WebhookEnv("active", "no_text", "found", "ok", "ok"),
      WebhookEnv("active", "no_from_user", "found", "ok", "ok"),
      WebhookEnv("active", "text", "missing", "ok", "ok"),
      WebhookEnv("active", "text", "raises", "ok", "ok"),
      WebhookEnv("active", "text", "found", "ValueError", "ok"),
      WebhookEnv("active", "text", "found", "raises", "ok"),
      WebhookEnv("active", "text", "found", "ok", "raises"),
      WebhookEnv("active", "text", "found", "ok", "ok") }

\* an HTTP response: the status code, the body's status and message, and
\* whether a background task goes with it
HttpResponse(code, status, message, task) ==
    [code |-> code, status |-> status, message |-> message, task |-> task]

NoWebhook == HttpResponse(0, "", "", FALSE)

\* the except branch of the handler (lines 125-128)
internal_error == HttpResponse(200, "error", "Internal server error", FALSE)

\* the buggy variant: the except branch lets the failure out as a 500
telegram_webhook_Raises(env) ==
    IF env.bot = "raises" THEN HttpResponse(500, "error", "Internal server error", FALSE)
    ELSE IF env.bot = "missing"
    THEN HttpResponse(200, "error", "Bot not found or inactive", FALSE)
    ELSE IF env.update \in {"bad_json", "not_an_update"}
    THEN HttpResponse(500, "error", "Internal server error", FALSE)
    ELSE IF env.update = "no_text"
    THEN HttpResponse(200, "ok", "Received update without text message", FALSE)
    ELSE IF env.update = "no_from_user"
    THEN HttpResponse(200, "error", "Received update without from user", FALSE)
    ELSE IF env.flow_data \in {"missing", "raises"}
    THEN HttpResponse(200, "error", "Flow configuration not found", FALSE)
    ELSE IF env.format = "ValueError"
    THEN HttpResponse(200, "error", "Invalid flow format", FALSE)
    ELSE IF env.format = "raises" \/ env.schedule = "raises"
    THEN HttpResponse(500, "error", "Internal server error", FALSE)
    ELSE HttpResponse(200, "ok", "", TRUE)

\* telegram_webhook (lines 46-128): every return is a dict, sent as 200
telegram_webhook(env) ==
    IF env.bot = "raises" THEN internal_error
    ELSE IF env.bot = "missing"
    THEN HttpResponse(200, "error", "Bot not found or inactive", FALSE)
    ELSE IF env.update \in {"bad_json", "not_an_update"} THEN internal_error
    ELSE IF env.update = "no_text"
    THEN HttpResponse(200, "ok", "Received update without text message", FALSE)
    ELSE IF env.update = "no_from_user"
    THEN HttpResponse(200, "error", "Received update without from user", FALSE)
    ELSE IF env.flow_data \in {"missing", "raises"}
    THEN HttpResponse(200, "error", "Flow configuration not found", FALSE)
    ELSE IF env.format = "ValueError"
    THEN HttpResponse(200, "error", "Invalid flow format", FALSE)
    ELSE IF env.format = "raises" \/ env.schedule = "raises" THEN internal_error
    ELSE HttpResponse(200, "ok", "", TRUE)

InitWebhook ==
    /\ wh_pc = "idle"
    /\ wh_env = WebhookEnv("active", "text", "found", "ok", "ok")
    /\ wh_response = NoWebhook
    /\ wh_sent = <<>>
    /\ wh_processed = <<>>

\* a request arrives and the handler runs to its return
TelegramWebhook ==
    /\ wh_pc = "idle"
    /\ Len(wh_sent) < MaxWebhooks
    /\ \E env \in WebhookEnvs :
          /\ wh_env' = env
          /\ wh_response' = telegram_webhook(env)
    /\ wh_pc' = "returned"
    /\ UNCHANGED <<wh_sent, wh_processed>>
    /\ UNCHANGED outsideWebhook

\* the response is sent; its background tasks come after it
SendResponse ==
    /\ wh_pc = "returned"
    /\ wh_sent' = Append(wh_sent, wh_response)
    /\ wh_pc' = IF wh_response.task THEN "background" ELSE "idle"
    /\ UNCHANGED <<wh_env, wh_response, wh_processed>>
    /\ UNCHANGED outsideWebhook

\* _process_telegram_update_background (lines 18-43): process_update returns
\* True or False or raises; the task logs and ends
ProcessInBackground ==
    /\ wh_pc = "background"
    /\ \E outcome \in {"True", "False", "raises"} :
          wh_processed' = Append(wh_processed,
                              [request |-> Len(wh_sent), outcome |-> outcome])
    /\ wh_pc' = "idle"
    /\ UNCHANGED <<wh_env, wh_response, wh_sent>>
    /\ UNCHANGED outsideWebhook

(***************************************************************************)
(* Session administration (messaging-gateway api/sessions.py), the inbound *)
(* message's way to the engine (services/telegram.py) and the engine's     *)
(* session store (engine storage/session_store.py)                         *)
(***************************************************************************)
MaxInbound == 4

MaxSessionIds == 4

\* PlatformConversationStatus (easypath_shared/constants/enums.py:45-49)
ACTIVE == "ACTIVE"

INACTIVE == "INACTIVE"

Conversation(exists, session_id, status, messages) ==
    [exists |-> exists, session_id |-> session_id, status |-> status,
     messages |-> messages]

NoConversation == Conversation(FALSE, 0, ACTIVE, 0)

\* what an operation did
Operation(op, old_session_id, new_session_id, status_before, notice, forwarded) ==
    [op |-> op, old_session_id |-> old_session_id,
     new_session_id |-> new_session_id, status_before |-> status_before,
     notice |-> notice, forwarded |-> forwarded]

NoOperation == Operation("none", 0, 0, ACTIVE, FALSE, FALSE)

InitConv ==
    /\ cv_conversation = NoConversation
    /\ cv_store = {}
    /\ cv_made = 0
    /\ cv_inbound = 0
    /\ cv_last = NoOperation

\* DELETE {engine}/session/{session_id}: the engine's routers are /health,
\* /chat, /flow and /ws (engine main.py:24-27); no route deletes a session and
\* the request is answered 404 with the store as it was
engine_delete_session(store, session_id, reached) == store

\* "conversation and conversation.status == 'closed'" (telegram.py:169): the
\* status is one of ACTIVE, INACTIVE, ARCHIVED
is_closed(conversation) ==
    conversation.exists /\ conversation.status = "closed"

\* process_update up to the engine: the closed notice, or the conversation is
\* found or created, the message stored and the turn run by the engine, which
\* saves the session under the conversation's session id
InboundMessage ==
    /\ cv_inbound < MaxInbound
    /\ cv_conversation.exists \/ cv_made < MaxSessionIds
    /\ cv_inbound' = cv_inbound + 1
    /\ IF is_closed(cv_conversation)
       THEN /\ cv_last' = Operation("message", cv_conversation.session_id,
                              cv_conversation.session_id, cv_conversation.status,
                              TRUE, FALSE)
            /\ UNCHANGED <<cv_conversation, cv_store, cv_made>>
       ELSE IF cv_conversation.exists
       THEN /\ cv_conversation' =
                  [cv_conversation EXCEPT !.messages = @ + 2]
            /\ cv_store' = cv_store \cup {cv_conversation.session_id}
            /\ cv_last' = Operation("message", cv_conversation.session_id,
                              cv_conversation.session_id, cv_conversation.status,
                              FALSE, TRUE)
            /\ UNCHANGED cv_made
       ELSE /\ cv_conversation' = Conversation(TRUE, cv_made + 1, ACTIVE, 2)
            /\ cv_made' = cv_made + 1
            /\ cv_store' = cv_store \cup {cv_made + 1}
            /\ cv_last' = Operation("message", cv_made + 1, cv_made + 1, ACTIVE,
                              FALSE, TRUE)
    /\ UNCHANGED outsideConv

\* close_session (sessions.py:181-229): the status is set and the engine is
\* asked to clear the session; the engine is reached or not
CloseSession ==
    /\ cv_conversation.exists
    /\ cv_conversation.status = ACTIVE
    /\ \E reached \in BOOLEAN :
          cv_store' = engine_delete_session(cv_store, cv_conversation.session_id,
                                            reached)
    /\ cv_conversation' = [cv_conversation EXCEPT !.status = INACTIVE]
    /\ cv_last' = Operation("close", cv_conversation.session_id,
                      cv_conversation.session_id, cv_conversation.status,
                      FALSE, FALSE)
    /\ UNCHANGED <<cv_made, cv_inbound>>
    /\ UNCHANGED outsideConv

\* reset_session (sessions.py:232-312): a new session id, the engine asked to
\* clear the old one, the messages deleted, the status ACTIVE
ResetSession ==
    /\ cv_conversation.exists
    /\ cv_made < MaxSessionIds
    /\ \E reached \in BOOLEAN :
          cv_store' = engine_delete_session(cv_store, cv_conversation.session_id,
                                            reached)
    /\ cv_conversation' = Conversation(TRUE, cv_made + 1, ACTIVE, 0)
    /\ cv_made' = cv_made + 1
    /\ cv_last' = Operation("reset", cv_conversation.session_id, cv_made + 1,
                      cv_conversation.status, FALSE, FALSE)
    /\ UNCHANGED cv_inbound
    /\ UNCHANGED outsideConv

(***************************************************************************)
(* Session socket of the engine (api/routes/ws.py): the receive loop of    *)
(* websocket_endpoint and the background task _process_user_message, which *)
(* runs the steps of one request on the engine's state                     *)
(***************************************************************************)
MaxFrames == 3

\* flow_data of a frame: absent, not a Flow, or the flow the engine runs
FlowData == {"missing", "unparseable", "flow"}

Frame(type, message, flow_data) ==
    [type |-> type, message |-> message, flow_data |-> flow_data]

Frames ==
    {Frame("pong", UserMsg("", 0, FALSE), "missing")}
    \cup {Frame("user_message", m, d) : m \in UserMessages, d \in FlowData}

Task(state, user_message, flow_data) ==
    [state |-> state, user_message |-> user_message, flow_data |-> flow_data]

NoTaskYet == Task("none", UserMsg("", 0, FALSE), "missing")

InitSocket ==
    /\ sk_task = NoTaskYet
    /\ sk_frames = 0
    /\ sk_answer = "none"

\* the receive loop takes a frame: a pong, a user_message without its message
\* or its flow_data (an error is sent), or a user_message whose task is created
SocketReceives ==
    /\ sk_task.state = "none"
    /\ sk_frames < MaxFrames
    /\ sk_frames' = sk_frames + 1
    /\ \E frame \in Frames :
          IF frame.type = "pong"
          THEN UNCHANGED <<sk_task, sk_answer>>
          ELSE IF frame.message.length = 0
          THEN /\ sk_answer' = "Missing 'message' field"
               /\ UNCHANGED sk_task
          ELSE IF frame.flow_data = "missing"
          THEN /\ sk_answer' = "Missing 'flow_data' field"
               /\ UNCHANGED sk_task
          ELSE /\ sk_task' = Task("spawned", frame.message, frame.flow_data)
               /\ UNCHANGED sk_answer
    /\ UNCHANGED outsideSocket

\* Flow(**flow_data) raises: the task sends an error and returns
TaskParseFails ==
    /\ sk_task.state = "spawned"
    /\ sk_task.flow_data = "unparseable"
    /\ sk_task' = [sk_task EXCEPT !.state = "returned"]
    /\ sk_answer' = "Invalid flow format"
    /\ UNCHANGED sk_frames
    /\ UNCHANGED outsideSocket

\* the task has its flow and has not run yet
SocketFirstStepGuard ==
    /\ sk_task.state = "spawned"
    /\ sk_task.flow_data = "flow"
    /\ pc = "idle"
    /\ steps = 0

\* the task loads or creates the session and runs the first step
SocketFirstStep ==
    /\ SocketFirstStepGuard
    /\ \E env \in Envs(flow, load_or_new(flow, saved)) :
          take_step(load_or_new(flow, saved), sk_task.user_message, env,
                    run_step(flow, load_or_new(flow, saved), sk_task.user_message, env))
    /\ auto_advance_count' = 0

(***************************************************************************)
(* Turns in flight on one session id (api/routes/chat.py post_message and  *)
(* post_message_with_flow, api/routes/ws.py _process_user_message): each   *)
(* turn awaits load_session, runs its steps without an await, and awaits   *)
(* save_session.  Of a turn's steps only what they append to the history   *)
(* is kept: the turn's user message and its assistant reply.               *)
(***************************************************************************)
MaxInFlight == 3

TurnIds == 1..MaxInFlight

Routes == {"http", "socket"}

Turn(at, route, history) == [at |-> at, route |-> route, history |-> history]

\* what the steps of turn t append to the history of its session object
turn_messages(t) == <<Message("user", t), Message("assistant", t)>>

InitTurns ==
    /\ tn_store = <<>>
    /\ tn_turn = [t \in TurnIds |-> Turn("new", "http", <<>>)]

\* a request or a user_message frame arrives and its load_session reads the
\* store: the saved session, or none and new_session
TurnLoads(t) ==
    /\ tn_turn[t].at = "new"
    /\ \E route \in Routes :
          tn_turn' = [tn_turn EXCEPT ![t] = Turn("loaded", route, tn_store)]
    /\ UNCHANGED tn_store
    /\ UNCHANGED outsideTurns

\* the turn is resumed with its session object and runs run_step and the
\* auto-advance loop, up to its save_session
TurnRuns(t) ==
    /\ tn_turn[t].at = "loaded"
    /\ tn_turn' = [tn_turn EXCEPT ![t].at = "ran",
                                  ![t].history = @ \o turn_messages(t)]
    /\ UNCHANGED tn_store
    /\ UNCHANGED outsideTurns

\* save_session writes the turn's session object to the store
TurnSaves(t) ==
    /\ tn_turn[t].at = "ran"
    /\ tn_store' = tn_turn[t].history
    /\ tn_turn' = [tn_turn EXCEPT ![t].at = "done"]
    /\ UNCHANGED outsideTurns

(***************************************************************************)
(* Typing indicator of the streaming path (services/telegram.py): the      *)
(* typing tasks of one inbound message and the places where                *)
(* _process_with_streaming stops and restarts them.  A message of a batch  *)
(* is known by whether the duplicate tests skip it.                        *)
(***************************************************************************)
\* batches of new messages looked at for one inbound message
MaxBatches == 2

\* messages that arrive together in one batch
MaxBatchLen == 2

\* one typing task at the start and one per restart
TypingIds == 1..(MaxBatches + 1)

\* a batch: for each new message whether it is skipped as a duplicate
Batches == UNION {[1..n -> BOOLEAN] : n \in 1..MaxBatchLen}

InitTyping ==
    /\ ty_pc = "idle"
    /\ ty_task = [t \in TypingIds |-> "none"]
    /\ ty_typing_task = 0
    /\ ty_stop = FALSE
    /\ ty_batch = <<>>
    /\ ty_batches = 0
    /\ ty_engine_done = FALSE
    /\ ty_ws_done = FALSE
    /\ ty_sent = <<>>
    /\ ty_restarts = <<>>

\* the typing tasks that have not finished
running(tasks) == {t \in TypingIds : tasks[t] \in {"created", "calling", "waiting"}}

\* asyncio.create_task(self._keep_typing_alive(...))
create_typing_task(tasks) ==
    [tasks EXCEPT ![Cardinality({t \in TypingIds : tasks[t] # "none"}) + 1] = "created"]

\* "if not typing_task.done(): typing_task.cancel()": the task catches the
\* CancelledError and ends
cancel_typing_task(tasks, t) ==
    IF t # 0 /\ tasks[t] \in {"created", "calling", "waiting"}
    THEN [tasks EXCEPT ![t] = "done"]
    ELSE tasks

\* the streaming coroutine has slept: every task that was ready to run has run
tasks_have_run ==
    \A t \in TypingIds :
        /\ ty_task[t] # "created"
        /\ ~(ty_task[t] = "waiting" /\ ty_stop)

\* _process_with_streaming starts the typing indicator and its two tasks
TypingBegins ==
    /\ ty_pc = "idle"
    /\ ty_pc' = "loop"
    /\ ty_stop' = FALSE
    /\ ty_task' = create_typing_task(ty_task)
    /\ ty_typing_task' = 1
    /\ UNCHANGED <<ty_batch, ty_batches, ty_engine_done, ty_ws_done, ty_sent,
                   ty_restarts>>
    /\ UNCHANGED outsideTyping

\* _keep_typing_alive enters its loop: "while not stop_event.is_set()"
TypingTaskStarts(t) ==
    /\ ty_task[t] = "created"
    /\ ty_task' = [ty_task EXCEPT ![t] = IF ty_stop THEN "done" ELSE "calling"]
    /\ UNCHANGED <<ty_pc, ty_typing_task, ty_stop, ty_batch, ty_batches,
                   ty_engine_done, ty_ws_done, ty_sent, ty_restarts>>
    /\ UNCHANGED outsideTyping

\* _send_typing_indicator returns (a failure is logged there): the task waits
\* for the stop event
TypingCallReturns(t) ==
    /\ ty_task[t] = "calling"
    /\ ty_task' = [ty_task EXCEPT ![t] = "waiting"]
    /\ UNCHANGED <<ty_pc, ty_typing_task, ty_stop, ty_batch, ty_batches,
                   ty_engine_done, ty_ws_done, ty_sent, ty_restarts>>
    /\ UNCHANGED outsideTyping

\* "await asyncio.wait_for(stop_event.wait(), timeout=4.0)" returns: break
TypingTaskStops(t) ==
    /\ ty_task[t] = "waiting"
    /\ ty_stop
    /\ ty_task' = [ty_task EXCEPT ![t] = "done"]
    /\ UNCHANGED <<ty_pc, ty_typing_task, ty_stop, ty_batch, ty_batches,
                   ty_engine_done, ty_ws_done, ty_sent, ty_restarts>>
    /\ UNCHANGED outsideTyping

\* the wait times out after 4 seconds: the indicator is sent again
TypingTaskRepeats(t) ==
    /\ ty_task[t] = "waiting"
    /\ ~ty_stop
    /\ ty_task' = [ty_task EXCEPT ![t] = "calling"]
    /\ UNCHANGED <<ty_pc, ty_typing_task, ty_stop, ty_batch, ty_batches,
                   ty_engine_done, ty_ws_done, ty_sent, ty_restarts>>
    /\ UNCHANGED outsideTyping

\* the engine's HTTP request completes
EngineTaskCompletes ==
    /\ ty_pc \notin {"idle", "ended"}
    /\ ~ty_engine_done
    /\ ty_engine_done' = TRUE
    /\ UNCHANGED <<ty_pc, ty_task, ty_typing_task, ty_stop, ty_batch, ty_batches,
                   ty_ws_done, ty_sent, ty_restarts>>
    /\ UNCHANGED outsideTyping

\* the listener task completes
ListenerTaskCompletes ==
    /\ ty_pc \notin {"idle", "ended"}
    /\ ~ty_ws_done
    /\ ty_ws_done' = TRUE
    /\ UNCHANGED <<ty_pc, ty_task, ty_typing_task, ty_stop, ty_batch, ty_batches,
                   ty_engine_done, ty_sent, ty_restarts>>
    /\ UNCHANGED outsideTyping

\* "if len(messages_received) > message_count": a batch of new messages
BatchArrives ==
    /\ ty_pc = "loop"
    /\ ty_batches < MaxBatches
    /\ tasks_have_run
    /\ \E batch \in Batches : ty_batch' = batch
    /\ ty_batches' = ty_batches + 1
    /\ ty_pc' = "batch"
    /\ UNCHANGED <<ty_task, ty_typing_task, ty_stop, ty_engine_done, ty_ws_done,
                   ty_sent, ty_restarts>>
    /\ UNCHANGED outsideTyping

\* the message is skipped as a duplicate: "message_count += 1; continue"
SkipDuplicate ==
    /\ ty_pc = "batch"
    /\ ty_batch # <<>>
    /\ Head(ty_batch)
    /\ ty_batch' = Tail(ty_batch)
    /\ UNCHANGED <<ty_pc, ty_task, ty_typing_task, ty_stop, ty_batches,
                   ty_engine_done, ty_ws_done, ty_sent, ty_restarts>>
    /\ UNCHANGED outsideTyping

\* "Stop typing before sending message": the event is set and the task held in
\* typing_task is cancelled and awaited; then the pause of 0.1 s
StopTyping ==
    /\ ty_pc = "batch"
    /\ ty_batch # <<>>
    /\ ~Head(ty_batch)
    /\ ty_stop' = TRUE
    /\ ty_task' = cancel_typing_task(ty_task, ty_typing_task)
    /\ ty_pc' = "pause"
    /\ UNCHANGED <<ty_typing_task, ty_batch, ty_batches, ty_engine_done,
                   ty_ws_done, ty_sent, ty_restarts>>
    /\ UNCHANGED outsideTyping

\* _send_telegram_message is called and returns
SendMessage ==
    /\ ty_pc = "pause"
    /\ tasks_have_run
    /\ ty_sent' = Append(ty_sent, [running |-> running(ty_task),
                                    typing_task |-> ty_typing_task])
    /\ ty_batch' = Tail(ty_batch)
    /\ ty_pc' = "batch"
    /\ UNCHANGED <<ty_task, ty_typing_task, ty_stop, ty_batches, ty_engine_done,
                   ty_ws_done, ty_restarts>>
    /\ UNCHANGED outsideTyping

\* _send_telegram_message raises: the except branch sets the event and cancels
\* the task held in typing_task
SendMessageRaises ==
    /\ ty_pc = "pause"
    /\ tasks_have_run
    /\ ty_stop' = TRUE
    /\ ty_task' = cancel_typing_task(ty_task, ty_typing_task)
    /\ ty_pc' = "ended"
    /\ UNCHANGED <<ty_typing_task, ty_batch, ty_batches, ty_engine_done,
                   ty_ws_done, ty_sent, ty_restarts>>
    /\ UNCHANGED outsideTyping

\* the batch is through and 0.5 s have passed: typing is restarted when the
\* listener is not done, no new message has arrived and the engine task is not
\* done
BatchEnds ==
    /\ ty_pc = "batch"
    /\ ty_batch = <<>>
    /\ tasks_have_run
    /\ \E quiet \in BOOLEAN :
          IF ~ty_ws_done /\ quiet /\ ~ty_engine_done
          THEN /\ ty_stop' = FALSE
               /\ ty_task' = create_typing_task(ty_task)
               /\ ty_typing_task' =
                     Cardinality({t \in TypingIds : ty_task[t] # "none"}) + 1
               /\ ty_restarts' = Append(ty_restarts, [engine_done |-> ty_engine_done])
          ELSE UNCHANGED <<ty_stop, ty_task, ty_typing_task, ty_restarts>>
    /\ ty_pc' = "loop"
    /\ UNCHANGED <<ty_batch, ty_batches, ty_engine_done, ty_ws_done, ty_sent>>
    /\ UNCHANGED outsideTyping

\* the listener is done or the 90 seconds are over: "Stop typing indicator"
StreamingLoopEnds ==
    /\ ty_pc = "loop"
    /\ tasks_have_run
    /\ ty_stop' = TRUE
    /\ ty_task' = cancel_typing_task(ty_task, ty_typing_task)
    /\ ty_pc' = "ended"
    /\ UNCHANGED <<ty_typing_task, ty_batch, ty_batches, ty_engine_done,
                   ty_ws_done, ty_sent, ty_restarts>>
    /\ UNCHANGED outsideTyping

(***************************************************************************)
(* Specifications                                                          *)
(***************************************************************************)
\* no request in the engine
EngineIdle ==
    /\ flow = FlowMain
    /\ saved = <<>>
    /\ session = NoSession
    /\ events = <<>>
    /\ last = NoStep
    /\ pc = "idle"
    /\ auto_advance_count = 0
    /\ steps = 0

\* Spec: the engine's requests
Init ==
    /\ InitEngine
    /\ InitHub
    /\ InitAdapter
    /\ InitFlight
    /\ InitPool
    /\ InitSend
    /\ InitListen
    /\ InitLoop
    /\ InitExtract
    /\ InitWebhook
    /\ InitConv
    /\ InitSocket
    /\ InitTurns
    /\ InitTyping

Next == PostMessage \/ AutoAdvance \/ Respond

Spec == Init /\ [][Next]_vars

\* SpecHub: the events of one run_step call on the hub
InitHubOnly ==
    /\ EngineIdle
    /\ InitHub
    /\ InitAdapter
    /\ InitFlight
    /\ InitPool
    /\ InitSend
    /\ InitListen
    /\ InitLoop
    /\ InitExtract
    /\ InitWebhook
    /\ InitConv
    /\ InitSocket
    /\ InitTurns
    /\ InitTyping

NextHub ==
    \/ Emit \/ Yield \/ Dispatch \/ SendWrites \/ SendSuspends \/ SendRaises
    \/ IterationFails \/ NextConnection \/ SendEventEnds \/ Poll
    \/ HubConnect \/ HubDisconnect

SpecHub == InitHubOnly /\ [][NextHub]_vars

\* SpecAdapter: the adapter's turns on one session
InitAdapterOnly ==
    /\ EngineIdle
    /\ InitHub
    /\ InitAdapter
    /\ InitFlight
    /\ InitPool
    /\ InitSend
    /\ InitListen
    /\ InitLoop
    /\ InitExtract
    /\ InitWebhook
    /\ InitConv
    /\ InitSocket
    /\ InitTurns
    /\ InitTyping

NextAdapter ==
    \/ Tick \/ StartStreaming \/ Collect \/ Examine \/ StreamingSent
    \/ StreamingSendRaises \/ StreamingEnds \/ FallbackReply \/ FallbackExamine
    \/ FallbackSent \/ FallbackSendRaises \/ FallbackEnds

SpecAdapter == InitAdapterOnly /\ [][NextAdapter]_vars

\* SpecFlight: inbound messages of one session at the adapter's gate
InitFlightOnly ==
    /\ EngineIdle
    /\ InitHub
    /\ InitAdapter
    /\ InitFlight
    /\ InitPool
    /\ InitSend
    /\ InitListen
    /\ InitLoop
    /\ InitExtract
    /\ InitWebhook
    /\ InitConv
    /\ InitSocket
    /\ InitTurns
    /\ InitTyping

NextFlight == Arrive \/ WaitWakes \/ StreamingReturns \/ FallbackReturns

SpecFlight == InitFlightOnly /\ [][NextFlight]_vars

\* SpecPool: callers of _ensure_connection and close_connection, one session
InitPoolOnly ==
    /\ EngineIdle
    /\ InitHub
    /\ InitAdapter
    /\ InitFlight
    /\ InitPool
    /\ InitSend
    /\ InitListen
    /\ InitLoop
    /\ InitExtract
    /\ InitWebhook
    /\ InitConv
    /\ InitSocket
    /\ InitTurns
    /\ InitTyping

NextPool ==
    \/ \E c \in Callers : Call(c)
    \/ \E c \in Callers : Acquire(c)
    \/ \E c \in Callers : ConnectSucceeds(c)
    \/ \E c \in Callers : ConnectFails(c)
    \/ \E c \in Callers : Retry(c)
    \/ RemoteCloses
    \/ CloseConnection

SpecPool == InitPoolOnly /\ [][NextPool]_vars

\* SpecPoolFair: a caller that can go on does go on
SpecPoolFair == SpecPool /\ \A c \in Callers : WF_vars(CallerStep(c))

\* SpecSend: send_user_message calls and the sender tasks of one session
InitSendOnly ==
    /\ EngineIdle
    /\ InitHub
    /\ InitAdapter
    /\ InitFlight
    /\ InitPool
    /\ InitSend
    /\ InitListen
    /\ InitLoop
    /\ InitExtract
    /\ InitWebhook
    /\ InitConv
    /\ InitSocket
    /\ InitTurns
    /\ InitTyping

NextSend ==
    \/ SendUserMessage
    \/ \E t \in SenderIds : SenderStarts(t)
    \/ \E t \in SenderIds : SenderGets(t)
    \/ \E t \in SenderIds : SenderReuses(t)
    \/ \E t \in SenderIds : SenderConnects(t)
    \/ \E t \in SenderIds : SenderConnectFails(t)
    \/ \E t \in SenderIds : SenderWrites(t)
    \/ \E t \in SenderIds : SenderWriteRaises(t)
    \/ SendRemoteCloses
    \/ SendCloseConnection

SpecSend == InitSendOnly /\ [][NextSend]_vars

\* what a sender task does next by itself
SenderStep(t) ==
    \/ SenderStarts(t)
    \/ SenderGets(t)
    \/ SenderReuses(t)
    \/ SenderConnects(t)
    \/ SenderConnectFails(t)
    \/ SenderWrites(t)
    \/ SenderWriteRaises(t)

\* SpecSendFair: a sender task that can go on does go on; the calls of
\* send_user_message, the remote close and close_connection are left open
SpecSendFair == SpecSend /\ \A t \in SenderIds : WF_vars(SenderStep(t))

\* SpecListen: the reader task and the listeners of one session
InitListenOnly ==
    /\ EngineIdle
    /\ InitHub
    /\ InitAdapter
    /\ InitFlight
    /\ InitPool
    /\ InitSend
    /\ InitListen
    /\ InitLoop
    /\ InitExtract
    /\ InitWebhook
    /\ InitConv
    /\ InitSocket
    /\ InitTurns
    /\ InitTyping

NextListen ==
    \/ \E l \in Listeners : Listen(l)
    \/ \E l \in Listeners : ListenerReuses(l)
    \/ \E l \in Listeners : ListenerConnects(l)
    \/ \E l \in Listeners : ListenerConnectFails(l)
    \/ \E l \in Listeners : ListenerGets(l)
    \/ \E l \in Listeners : ListenerCloses(l)
    \/ ReaderReads
    \/ ReaderEnds
    \/ DelayedCleanup
    \/ ListenCloseConnection

SpecListen == InitListenOnly /\ [][NextListen]_vars

\* what a listener does next by itself: it is handed a connection (or the attempt
\* fails) and it takes the next item off its queue
ListenerStep(l) ==
    \/ ListenerReuses(l)
    \/ ListenerConnects(l)
    \/ ListenerConnectFails(l)
    \/ ListenerGets(l)

\* SpecListenFair: a listener that can go on does go on, and a scheduled delayed
\* cleanup fires when its delay is over; what the engine sends, when the socket
\* closes and when a consumer stops listening is left open
SpecListenFair ==
    /\ SpecListen
    /\ \A l \in Listeners : WF_vars(ListenerStep(l))
    /\ WF_vars(DelayedCleanup)

\* SpecAdvance: one request from its first run_step to its response.  The
\* handler is straight-line code, so a step that can be taken is taken: weak
\* fairness of Respond and of NextAutoAdvance, the latter written out with the
\* step's guard for its ENABLED
InitAdvanceOnly ==
    /\ InitEngine
    /\ InitHub
    /\ InitAdapter
    /\ InitFlight
    /\ InitPool
    /\ InitSend
    /\ InitListen
    /\ InitLoop
    /\ InitExtract
    /\ InitWebhook
    /\ InitConv
    /\ InitSocket
    /\ InitTurns
    /\ InitTyping

NextAdvance == FirstStep \/ NextAutoAdvance \/ Respond

SpecAdvance ==
    /\ InitAdvanceOnly
    /\ [][NextAdvance]_vars
    /\ ([]<>~AutoAdvanceGuard \/ []<><<NextAutoAdvance>>_vars)
    /\ WF_vars(Respond)

\* SpecLoop: should_loop called on every node and answer
InitLoopOnly ==
    /\ EngineIdle
    /\ InitHub
    /\ InitAdapter
    /\ InitFlight
    /\ InitPool
    /\ InitSend
    /\ InitListen
    /\ InitLoop
    /\ InitExtract
    /\ InitWebhook
    /\ InitConv
    /\ InitSocket
    /\ InitTurns
    /\ InitTyping

NextLoop == ShouldLoop

SpecLoop == InitLoopOnly /\ [][NextLoop]_vars

\* SpecExtract: one extract_variables call, every outcome of every attempt
InitExtractOnly ==
    /\ EngineIdle
    /\ InitHub
    /\ InitAdapter
    /\ InitFlight
    /\ InitPool
    /\ InitSend
    /\ InitListen
    /\ InitLoop
    /\ InitExtract
    /\ InitWebhook
    /\ InitConv
    /\ InitSocket
    /\ InitTurns
    /\ InitTyping

NextExtract ==
    \/ ExtractReturnsEarly
    \/ ExtractEntersLoop
    \/ AttemptWithoutLlm
    \/ AttemptFails
    \/ AttemptEmpty
    \/ AttemptUnparseable
    \/ AttemptParses

SpecExtract == InitExtractOnly /\ [][NextExtract]_vars

(***************************************************************************)
\* SpecEntry: the chat route on every flow, among them one with an empty
\* first node id
InitEntryOnly ==
    /\ flow \in Flows \cup {FlowBlank}
    /\ saved = <<>>
    /\ session = NoSession
    /\ events = <<>>
    /\ last = NoStep
    /\ pc = "idle"
    /\ auto_advance_count = 0
    /\ steps = 0
    /\ InitHub
    /\ InitAdapter
    /\ InitFlight
    /\ InitPool
    /\ InitSend
    /\ InitListen
    /\ InitLoop
    /\ InitExtract
    /\ InitWebhook
    /\ InitConv
    /\ InitSocket
    /\ InitTurns
    /\ InitTyping

NextEntry == PostMessage \/ AutoAdvance \/ Respond \/ RequestFails

SpecEntry == InitEntryOnly /\ [][NextEntry]_vars

\* SpecWebhook: requests on the Telegram webhook, one after the other
InitWebhookOnly ==
    /\ EngineIdle
    /\ InitHub
    /\ InitAdapter
    /\ InitFlight
    /\ InitPool
    /\ InitSend
    /\ InitListen
    /\ InitLoop
    /\ InitExtract
    /\ InitWebhook
    /\ InitConv
    /\ InitSocket
    /\ InitTurns
    /\ InitTyping

NextWebhook == TelegramWebhook \/ SendResponse \/ ProcessInBackground

SpecWebhook == InitWebhookOnly /\ [][NextWebhook]_vars

\* SpecConv: one conversation, its inbound messages, and close and reset
InitConvOnly ==
    /\ EngineIdle
    /\ InitHub
    /\ InitAdapter
    /\ InitFlight
    /\ InitPool
    /\ InitSend
    /\ InitListen
    /\ InitLoop
    /\ InitExtract
    /\ InitWebhook
    /\ InitConv
    /\ InitSocket
    /\ InitTurns
    /\ InitTyping

NextConv == InboundMessage \/ CloseSession \/ ResetSession

SpecConv == InitConvOnly /\ [][NextConv]_vars

\* SpecSocket: one session socket, its frames and the task of one
\* user_message carried to its end on every flow; the outside calls of the first
\* step have every outcome, those of the auto-advance steps the outcomes of
\* AdvanceEnvs.  The event loop runs a created task, and a task that can take
\* its next step takes it.
InitSocketOnly == InitEntryOnly

NextSocket ==
    \/ SocketReceives
    \/ TaskParseFails
    \/ SocketFirstStep
    \/ NextAutoAdvance
    \/ Respond
    \/ RequestFails

SpecSocket ==
    /\ InitSocketOnly
    /\ [][NextSocket]_vars
    /\ ([]<>~SocketFirstStepGuard \/ []<><<SocketFirstStep>>_vars)
    /\ ([]<>~AutoAdvanceGuard \/ []<><<NextAutoAdvance>>_vars)
    /\ WF_vars(TaskParseFails)
    /\ WF_vars(Respond)
    /\ WF_vars(RequestFails)

\* SpecTurns: the turns on one session id, their store accesses interleaved
InitTurnsOnly ==
    /\ EngineIdle
    /\ InitHub
    /\ InitAdapter
    /\ InitFlight
    /\ InitPool
    /\ InitSend
    /\ InitListen
    /\ InitLoop
    /\ InitExtract
    /\ InitWebhook
    /\ InitConv
    /\ InitSocket
    /\ InitTurns
    /\ InitTyping

NextTurns ==
    \E t \in TurnIds : TurnLoads(t) \/ TurnRuns(t) \/ TurnSaves(t)

SpecTurns == InitTurnsOnly /\ [][NextTurns]_vars

\* SpecTyping: the typing tasks of one inbound message.  A typing task that can
\* go on does go on: its request to the platform returns and a set event wakes it
InitTypingOnly ==
    /\ EngineIdle
    /\ InitHub
    /\ InitAdapter
    /\ InitFlight
    /\ InitPool
    /\ InitSend
    /\ InitListen
    /\ InitLoop
    /\ InitExtract
    /\ InitWebhook
    /\ InitConv
    /\ InitSocket
    /\ InitTurns
    /\ InitTyping

TypingTaskStep(t) ==
    \/ TypingTaskStarts(t)
    \/ TypingCallReturns(t)
    \/ TypingTaskStops(t)

NextTyping ==
    \/ TypingBegins
    \/ \E t \in TypingIds : TypingTaskStarts(t)
    \/ \E t \in TypingIds : TypingCallReturns(t)
    \/ \E t \in TypingIds : TypingTaskStops(t)
    \/ \E t \in TypingIds : TypingTaskRepeats(t)
    \/ EngineTaskCompletes
    \/ ListenerTaskCompletes
    \/ BatchArrives
    \/ SkipDuplicate
    \/ StopTyping
    \/ SendMessage
    \/ SendMessageRaises
    \/ BatchEnds
    \/ StreamingLoopEnds

SpecTyping ==
    /\ InitTypingOnly
    /\ [][NextTyping]_vars
    /\ \A t \in TypingIds : WF_vars(TypingTaskStep(t))

(***************************************************************************)
(* Properties of the engine                                                *)
(***************************************************************************)
\* C1: every run_step call whose inputs pass validation appends exactly one
\* user message followed by exactly one assistant message to session.history
C1_HistoryGrowsByTwo ==
    (last.path # "none" /\ last.valid) =>
        /\ Len(session.history) = last.hist_len + 2
        /\ session.history[last.hist_len + 1].role = "user"
        /\ session.history[last.hist_len + 2].role = "assistant"

C4_NamesNeverShrink ==
    [][DOMAIN session.extracted_variables
         \subseteq DOMAIN session'.extracted_variables]_vars

\* a call that added user_name to a session already holding user_email
C4_Witness ==
    /\ last.names_before = {"user_email"}
    /\ last.ext_names = {"user_name"}
    /\ DOMAIN session.extracted_variables = {"user_email", "user_name"}

C6_WrittenOnceInOrder ==
    \A s \in Sockets :
        \A i, j \in 1..Len(hub_wire[s]) :
            i < j => hub_wire[s][i] < hub_wire[s][j]

(***************************************************************************)
(* Properties of the adapter                                               *)
(***************************************************************************)
\* C7: on the streaming path and on the fallback path, the platform never
\* receives a text (a) equal to one it received less than 2 seconds before,
\* (b) that is a proper substring of a part received earlier in the turn, or
\* (c) that has a part received earlier in the turn as a proper substring
C7_NoDuplicateSends ==
    \A i, j \in 1..Len(ad_log) :
        i < j =>
            /\ ~ ( /\ ad_log[j].text = ad_log[i].text
                   /\ ad_log[j].time - ad_log[i].time < dedup_window )
            /\ ad_log[i].turn = ad_log[j].turn =>
                  /\ ~ ( /\ is_in(ad_log[j].text, ad_log[i].text)
                         /\ Len(ad_log[j].text) < Len(ad_log[i].text) )
                  /\ ~ ( /\ is_in(ad_log[i].text, ad_log[j].text)
                         /\ Len(ad_log[i].text) < Len(ad_log[j].text) )

\* message m is being processed, on the streaming or on the fallback path
Processing(m) == fl_msg[m].pc \in {"streaming", "fallback"}

\* C8: of two messages of the session that are being processed at the same
\* time, the one that started later has waited the 60 seconds
C8_SingleFlight ==
    \A i, j \in 1..Len(fl_started) :
        (i < j /\ Processing(fl_started[i]) /\ Processing(fl_started[j]))
            => fl_msg[fl_started[j]].elapsed >= wait_timeout * checks_per_second

(***************************************************************************)
(* Properties of the connection pool                                       *)
(***************************************************************************)
\* C9: whatever the interleaving of the callers of _ensure_connection and of
\* cleanup, the session has at most one open outbound connection and at most
\* one caller is creating a connection
C9_OneConnection ==
    /\ Cardinality(pool_open) <= 1
    /\ Cardinality({c \in Callers : pool_caller[c].pc = "connecting"}) <= 1

\* C10: failed attempts are retried after 1, 2 and 4 seconds, the failure of
\* the fourth attempt is raised, and every call of _ensure_connection
\* eventually returns a connection or raises
C10_RetriesThenEnds ==
    /\ [](\A c \in Callers :
            /\ pool_caller[c].retry_count <= max_retries
            /\ pool_caller[c].pc = "raised" => pool_caller[c].waits = <<1, 2, 4>>)
    /\ \A c \in Callers :
          (pool_caller[c].pc # "idle") ~> (pool_caller[c].pc \in {"returned", "raised"})

(***************************************************************************)
(* Properties of the outbound client                                       *)
(***************************************************************************)
\* C11: the user messages of one session are written to the socket one at a time
\* and in the order they were enqueued, and a send_user_message call completes
\* only after its own message has been written or has failed
C11_WrittenInEnqueueOrder ==
    /\ \A i, j \in 1..Len(sq_wire) : i < j => sq_wire[i] < sq_wire[j]
    /\ Cardinality({t \in SenderIds : sq_task[t].pc = "sending"}) <= 1
    /\ \A m \in SendIds :
          sq_call[m] = "sent" => \E i \in 1..Len(sq_wire) : sq_wire[i] = m

\* the texts with something other than blanks among the assistant messages
texts_of(items) ==
    LET kept == SelectSeq(items, LAMBDA e :
                    /\ e.event_type = "assistant_message"
                    /\ \E i \in 1..Len(e.message) : e.message[i] # " ")
    IN  [i \in 1..Len(kept) |-> kept[i].message]

\* C12: every event read from the session's connection is put on the queue of every
\* listener listed at that moment, in the order received, and each listener yields
\* the non-empty assistant-message texts it has taken off its queue in that order
C12_FanOutInOrder ==
    \A l \in Listeners :
        LET due == SelectSeq(ls_read, LAMBDA r :
                       is_event(r.message) /\ l \in listed(r.queues))
            got == SelectSeq(ls_listener[l].got, LAMBDA e : e # Closed)
            taken == SubSeq(ls_listener[l].got, 1,
                            Len(ls_listener[l].got) - Len(ls_listener[l].queue))
        IN  /\ got = [i \in 1..Len(due) |-> due[i].message]
            /\ ls_listener[l].yielded = texts_of(taken)

\* two listeners are listed while a blank assistant message is read, and a listener
\* has taken three events off its queue and yielded two different texts
C12_Witness ==
    \E l \in Listeners :
        /\ Len(ls_listener[l].got) >= 3
        /\ ls_listener[l].queue = <<>>
        /\ Len(ls_listener[l].yielded) = 2
        /\ ls_listener[l].yielded[1] # ls_listener[l].yielded[2]
        /\ \E i \in 1..Len(ls_read) :
              /\ Len(ls_read[i].queues) = 2
              /\ ls_read[i].message = WireEvent("assistant_message", <<" ">>)

(***************************************************************************)
(* Properties of one request                                               *)
(***************************************************************************)
\* C13: after the first run_step of a request the handler calls run_step again at
\* most 10 times, each time with the sentinel input and on a node that has
\* skip_user_response, and the request comes to its end
C13_AutoAdvanceEnds ==
    /\ [](auto_advance_count <= max_auto_advances)
    /\ [](AutoAdvanceGuard => AdvanceEnvs(flow, session) # {})
    /\ [][(pc = "advancing" /\ steps' = steps + 1) =>
            /\ get_node_by_id(flow, session.current_node_id).skip_user_response
            /\ auto_advance_count' = auto_advance_count + 1
            /\ last'.valid
            /\ session'.history[last'.hist_len + 1] =
                  Message("user", Text(AUTO_ADVANCE.text))]_vars
    /\ (pc = "advancing") ~> (pc \in {"idle", "failed"})

\* the loop was left after its tenth run on a node that would auto-advance again
C13_Witness ==
    /\ pc = "idle"
    /\ steps = 1 + max_auto_advances
    /\ auto_advance_count = max_auto_advances
    /\ get_node_by_id(flow, session.current_node_id).skip_user_response

(***************************************************************************)
(* Properties of one turn                                                  *)
(***************************************************************************)
\* the turn of the last run_step call got past validation and the node lookup
turn_ran == last.path \notin {"none", "invalid", "no_node"}

\* the node the last run_step call started on
node_before == get_node_by_id(flow, last.from)

\* what the session held once this turn's extracted values were merged in
merged_variables ==
    store_extracted(last.before.extracted_variables,
        ExtractedNames(node_before, extracted_values(node_before, last.env.ext)),
        extracted_values(node_before, last.env.ext))

\* the names of the required variables of the node that are still absent
missing_required ==
    {node_before.extract_vars[i].name : i \in
        {j \in 1..Len(node_before.extract_vars) :
            /\ node_before.extract_vars[j].required
            /\ node_before.extract_vars[j].name \notin DOMAIN merged_variables}}

\* the turn asks for missing variables
clarification_applies == turn_ran /\ missing_required # {}

\* the turn stays on its node because the loop evaluator said so
loop_applies ==
    /\ turn_ran
    /\ ~clarification_applies
    /\ node_before.loop_enabled
    /\ node_before.loop_condition # ""
    /\ last.env.loop = "LOOP"

\* the turn reaches the pathway selector
selection_applies == turn_ran /\ ~clarification_applies /\ ~loop_applies

missing_descriptions ==
    LET asked == SelectSeq(node_before.extract_vars,
                           LAMBDA v : v.name \in missing_required)
    IN  [i \in 1..Len(asked) |-> asked[i].description]

\* the last run_step call with other answers from the selector and the generator
rerun_with(sel, gen) ==
    run_step(flow, last.before, last.user_message,
             [last.env EXCEPT !.sel = sel, !.gen = gen])

\* C15: when a required variable of the current node is still absent after this
\* turn's values are merged, run_step leaves current_node_id unchanged, replies
\* with the clarification that lists exactly the missing required variables'
\* descriptions, and calls neither the selector nor the generator (their answers
\* change nothing); with no required variable missing the turn proceeds
C15_ClarifiesMissingRequired ==
    /\ clarification_applies =>
          /\ last.path = "clarify"
          /\ session.current_node_id = last.from
          /\ session.extracted_variables = merged_variables
          /\ Len(last.reply) = Len(missing_descriptions) + 2
          /\ SubSeq(last.reply, 2, Len(last.reply) - 1) = missing_descriptions
          /\ \A i \in 1..Len(events) :
                events[i].type \notin {"pathway_selected", "response_generated",
                                       "node_exited", "node_entered"}
          /\ \A sel \in SelectorAnswers, gen \in ResponseAnswers :
                /\ rerun_with(sel, gen).session = session
                /\ rerun_with(sel, gen).reply = last.reply
                /\ rerun_with(sel, gen).events = events
    /\ (turn_ran /\ ~clarification_applies) => last.path # "clarify"

\* a turn that stored an optional variable and asked for the required one
C15_Witness ==
    /\ clarification_applies
    /\ last.path = "clarify"
    /\ missing_required = {"user_name"}
    /\ "user_email" \in DOMAIN session.extracted_variables
    /\ last.ext_names = {"user_email"}

\* the events of the last run_step call that have the given type
events_of(type) == SelectSeq(events, LAMBDA e : e.type = type)

\* the paths of run_step that went through the pathway selector
selection_paths == {"advance", "gen_error", "raised", "choose_error"}

entered_auto_return ==
    /\ turn_ran
    /\ HasNode(flow, last.entered)
    /\ get_node_by_id(flow, last.entered).auto_return_to_previous
    /\ session.previous_node_id \notin {NoNode, ""}

\* the node_entered and assistant_message events of the turn carry the entered node
entered_events_carry_node ==
    /\ \A i \in 1..Len(events) :
          events[i].type \in {"node_entered", "assistant_message"} =>
              events[i].node = last.entered
    /\ Len(events_of("node_entered")) = 1

C17_AutoReturnAfterReply ==
    (entered_auto_return /\ last.env.gen.kind # "raise") =>
        /\ last.path = "advance"
        /\ session.current_node_id = last.from
        /\ session.previous_node_id = last.from
        /\ entered_events_carry_node
        /\ Len(events_of("assistant_message")) = 1

\* a turn entered the global node, replied from it and handed the session back
C17_Witness ==
    /\ entered_auto_return
    /\ last.path = "advance"
    /\ last.entered = "help"
    /\ last.from # "help"
    /\ session.current_node_id = last.from
    /\ events_of("assistant_message") = <<Event("assistant_message", "help", "")>>

(***************************************************************************)
(* Properties of the pathway selector                                      *)
(***************************************************************************)
\* the selector was called in the last turn and returned
selector_returned == selection_applies /\ last.env.sel.kind # "raise"

\* the candidates the selector was given in the last turn
candidates_before == format_prompt(flow, last.from)

\* the highest similarity of a candidate's label to the LLM's response
best_score ==
    CHOOSE n \in 0..100 :
        /\ \E i \in 1..Len(candidates_before) :
              fuzz_ratio(last.env.sel.response, candidates_before[i].label) = n
        /\ \A i \in 1..Len(candidates_before) :
              fuzz_ratio(last.env.sel.response, candidates_before[i].label) <= n

same_letter(c, d) ==
    \/ c = d
    \/ <<c, d>> \in { <<"l", "L">>, <<"o", "O">>, <<"p", "P">>, <<"r", "R">>,
                      <<"c", "C">>, <<"e", "E">>, <<"d", "D">> }

\* the word occurs in the text, in whatever case
has_word(text, word) ==
    \E i \in 0..(Len(text) - Len(word)) :
        \A k \in 1..Len(word) : same_letter(text[i + k], word[k])

\* the text has a character that is no whitespace
non_blank(s) == ~s.is_none /\ \E i \in 1..Len(s.text) : s.text[i] \notin Whitespace

FailedKinds == {"get_llm_raises", "llm_failed", "empty_response", "parse_error"}

\* C20: extract_variables calls the LLM at most max_retries + 1 times (3 by
\* default); after a failed call, an empty response or a response that does not
\* parse it tries again; it stops at the first response that parses and returns
\* its mapping; it returns the empty mapping when every attempt failed; and it
\* always returns
C20_RetriesThenGivesUp ==
    /\ ex_pc \in {"idle", "looping", "returned"}
    /\ ex_calls <= extract_max_retries + 1
    /\ ex_calls <= 3
    /\ Len(ex_log) <= extract_max_retries + 1
    /\ ex_calls = Cardinality({i \in 1..Len(ex_log) :
                      ex_log[i].kind \in {"llm_failed", "empty_response",
                                          "parse_error", "parsed"}})
    /\ \A i \in 1..(Len(ex_log) - 1) : ex_log[i].kind \in FailedKinds
    /\ ex_pc = "looping" =>
          /\ \A i \in 1..Len(ex_log) : ex_log[i].kind \in FailedKinds
          /\ Len(ex_log) <= extract_max_retries
          /\ ex_attempt = Len(ex_log)
    /\ ex_pc = "returned" =>
          \/ /\ ex_log[Len(ex_log)].kind = "parsed"
             /\ ex_result = ex_log[Len(ex_log)].values
          \/ /\ Len(ex_log) = extract_max_retries + 1
             /\ ex_log[Len(ex_log)].kind \in FailedKinds
             /\ ex_result = <<>>
          \/ /\ Len(ex_log) = 1
             /\ ex_log[1].kind \in EarlyReturns
             /\ ex_calls = 0
             /\ ex_result = <<>>

\* a failed call and an unparseable response were retried, and the third
\* response parsed and was returned
C20_Witness ==
    /\ ex_pc = "returned"
    /\ ex_calls = 3
    /\ Len(ex_log) = 3
    /\ ex_log[1].kind = "llm_failed"
    /\ ex_log[2].kind = "parse_error"
    /\ ex_log[3] = Attempt("parsed", [user_name |-> "v1"])
    /\ ex_result = [user_name |-> "v1"]

(***************************************************************************)
(* Properties of run_step's failures                                       *)
(***************************************************************************)
\* the inputs _validate_run_step_inputs refuses
refused_input ==
    \/ last.user_message.length = 0
    \/ last.user_message.blank
    \/ last.user_message.length > 10000
    \/ last.before.current_node_id = ""

\* C21: when the validation of run_step's inputs fails (empty or whitespace-only
\* message, message longer than 10000 characters, empty current_node_id) it
\* returns the canned reply with the error timings, calls no LLM (no answer of
\* any of them changes the outcome, and no event is emitted) and leaves the
\* session as it was
C21_InvalidInputTouchesNothing ==
    (last.path # "none" /\ refused_input) =>
        /\ last.path = "invalid"
        /\ last.reply =
              <<"Desculpe, nao consegui processar sua mensagem. Por favor, tente novamente.">>
        /\ step_timings(last.path, last.env) = create_error_timings
        /\ step_timings(last.path, last.env).zeroed
        /\ session = last.before
        /\ events = <<>>
        /\ \A sel \in SelectorAnswers, gen \in ResponseAnswers :
              /\ rerun_with(sel, gen).session = last.before
              /\ rerun_with(sel, gen).reply = last.reply
              /\ rerun_with(sel, gen).events = <<>>

\* a message was refused because the session's current_node_id is empty
C21_Witness ==
    /\ last.path = "invalid"
    /\ last.before.current_node_id = ""
    /\ last.user_message = UserMsg("hi", 2, FALSE)
    /\ session = last.before
    /\ session.history = <<>>

\* the canned replies of run_step's failures
CannedErrors ==
    { <<"Desculpe, nao consegui processar sua mensagem. Por favor, tente novamente.">>,
      <<"Erro no fluxo de conversacao.">>,
      <<"Desculpe, ocorreu um erro ao processar sua solicitacao.">>,
      <<"Desculpe, nao consegui gerar uma resposta.">> }

\* C22: when pathway selection or response generation fails after the validation,
\* an LLM call that reports failure included, run_step returns a canned error
\* reply with step_timings whose model names are "error", and does not raise
C22_FailuresGiveCannedError ==
    ( /\ selection_applies
      /\ \/ last.env.sel.kind \in {"fail", "raise"}
         \/ last.env.gen.kind \in {"fail", "raise"} ) =>
        /\ last.path # "raised"
        /\ last.reply \in CannedErrors
        /\ step_timings(last.path, last.env).choose_next_model = "error"
        /\ step_timings(last.path, last.env).generate_response_model = "error"
        /\ step_timings(last.path, last.env).loop_evaluation_model = "error"

\* the failures that are exceptions: choose_next or generate_response raising
\* end the step with a canned error reply and the error timings
C22_ExceptionsGiveCannedError ==
    ( /\ selection_applies
      /\ \/ last.env.sel.kind = "raise"
         \/ last.env.gen.kind = "raise" ) =>
        /\ last.path \in {"choose_error", "gen_error"}
        /\ last.reply \in CannedErrors
        /\ step_timings(last.path, last.env) = create_error_timings

(***************************************************************************)
(* Properties of the Telegram webhook                                      *)
(***************************************************************************)
\* every step of the handler went through
nothing_failed(env) ==
    /\ env.bot = "active"
    /\ env.update = "text"
    /\ env.flow_data = "found"
    /\ env.format = "ok"
    /\ env.schedule = "ok"

\* C23: the webhook handler answers every request with HTTP 200, whatever failed
\* (bot unknown or inactive, flow not found, invalid flow format, an exception
\* while parsing the update or scheduling the work), and the message is processed
\* in a background task that runs after the response was sent
C23_AlwaysAnswers200 ==
    /\ \A i \in 1..Len(wh_sent) : wh_sent[i].code = 200
    /\ wh_pc = "returned" =>
          /\ wh_response.code = 200
          /\ wh_response.task <=> nothing_failed(wh_env)
          /\ ~nothing_failed(wh_env) => wh_response.status # "ok"
                                         \/ wh_env.update = "no_text"
    /\ wh_pc = "background" =>
          /\ wh_sent[Len(wh_sent)] = wh_response
          /\ wh_response.task
    /\ \A k \in 1..Len(wh_processed) :
          /\ wh_processed[k].request <= Len(wh_sent)
          /\ wh_sent[wh_processed[k].request].task
          /\ \A j \in 1..(k - 1) : wh_processed[j].request < wh_processed[k].request

\* one request failed while the work was scheduled and got its 200, and another
\* was answered and then processed in the background, where processing raised
C23_Witness ==
    /\ Len(wh_sent) = 2
    /\ wh_sent[1] = internal_error
    /\ wh_sent[2] = HttpResponse(200, "ok", "", TRUE)
    /\ wh_processed = <<[request |-> 2, outcome |-> "raises"]>>

(***************************************************************************)
(* Properties of session administration                                    *)
(***************************************************************************)
\* C24: after a session reset the conversation has a new session id, different
\* from the old one, and the engine's session store holds nothing under the old
\* session id
C24_ResetForgetsOldSession ==
    cv_last.op = "reset" =>
        /\ cv_conversation.session_id = cv_last.new_session_id
        /\ cv_last.new_session_id # cv_last.old_session_id
        /\ cv_last.old_session_id \notin cv_store

\* what reset_session does do: a new session id, no messages, status ACTIVE
C24_ResetRenamesSession ==
    cv_last.op = "reset" =>
        /\ cv_conversation = Conversation(TRUE, cv_last.new_session_id, ACTIVE, 0)
        /\ cv_last.new_session_id # cv_last.old_session_id
        /\ cv_last.new_session_id \notin cv_store

\* C25: once the conversation was closed by close_session, every later inbound
\* message is answered with the closed notice and is not forwarded to the
\* engine, until the conversation is reset
C25_ClosedIsNotForwarded ==
    (cv_last.op = "message" /\ cv_last.status_before = INACTIVE) =>
        /\ cv_last.notice
        /\ ~cv_last.forwarded

(***************************************************************************)
(* Properties of the adapter's two paths                                   *)
(***************************************************************************)
\* the texts the platform got in the turn under way, in the order sent
RECURSIVE sent_in_turn(_, _)
sent_in_turn(log, turn) ==
    IF log = <<>> THEN <<>>
    ELSE IF log[1].turn = turn
         THEN <<log[1].text>> \o sent_in_turn(Tail(log), turn)
         ELSE sent_in_turn(Tail(log), turn)

RECURSIVE candidates(_)
\* the parts of the received assistant messages, in order
candidates(received) ==
    IF received = <<>> THEN <<>>
    ELSE split_message_at_separator(received[1]) \o candidates(Tail(received))

RECURSIVE is_subsequence(_, _)
\* small is big with some elements left out
is_subsequence(small, big) ==
    IF small = <<>> THEN TRUE
    ELSE IF big = <<>> THEN FALSE
    ELSE IF small[1] = big[1] THEN is_subsequence(Tail(small), Tail(big))
    ELSE is_subsequence(small, Tail(big))

\* C26: on the streaming path every received assistant message is split at
\* "---" and what the platform gets in the turn are parts of that splitting,
\* each as a message of its own, in the order of the parts (the suppressed
\* ones left out)
C26_StreamedMessagesAreSplit ==
    ad_pc \in {"streaming", "sending"} =>
        is_subsequence(sent_in_turn(ad_log, ad_turn), candidates(ad_received))

\* what the streaming loop does do: the received messages go out whole, in
\* the order received, the suppressed ones left out
C26_StreamedMessagesInOrder ==
    ad_pc \in {"streaming", "sending"} =>
        is_subsequence(sent_in_turn(ad_log, ad_turn), ad_received)

\* the streaming path of the turn ends in this step
streaming_returns ==
    /\ ad_pc \in {"streaming", "sending"}
    /\ ad_pc' \in {"idle", "fallback"}

\* the fallback hands a part to the platform in this step
fallback_sends ==
    /\ ad_pc = "fb_sending"
    /\ ad_log' # ad_log

\* the part equals, contains or is contained in a text the platform got
overlaps_sent(part, log) ==
    \E i \in 1..Len(log) :
        is_in(part, log[i].text) \/ is_in(log[i].text, part)

\* C27: the fallback is invoked exactly when the streaming path sent no
\* message to the platform for the inbound message (a message received and
\* suppressed is not a message sent), and no part the fallback sends equals,
\* contains or is contained in a text already sent for the session
C27_FallbackExactlyWhenNothingStreamed ==
    [][/\ streaming_returns =>
             (ad_pc' = "fallback" <=> sent_in_turn(ad_log', ad_turn) = <<>>)
       /\ fallback_sends => ~overlaps_sent(ad_pending.text, ad_log)]_vars

\* what the code does do: the fallback is invoked when the streaming loop
\* counted no message (sent or suppressed) or when it raised, and the parts it
\* sends overlap nothing sent before
C27_FallbackWhenNothingCounted ==
    [][/\ streaming_returns =>
             (ad_pc' = "fallback" <=> (ad_count = 0 \/ ad_pc = "sending"))
       /\ fallback_sends => ~overlaps_sent(ad_pending.text, ad_log)]_vars

\* an assistant message of the turn is in the message log
persisted_in(turn) == \E i \in 1..Len(ad_db) : ad_db[i].turn = turn

\* C29: when the send of a reply part to the platform has failed, on the
\* streaming path or on the fallback path, the failure is logged and, the turn
\* over, the message log holds an assistant message of that turn
C29_FailedSendStillPersisted ==
    ad_pc = "idle" =>
        \A i \in 1..Len(ad_errors) : persisted_in(ad_errors[i].turn)

\* what the code does do: the message log holds the texts the platform got,
\* except those of a streaming call or of a fallback that a failed send ended
C29_PersistedWereSent ==
    ad_pc = "idle" =>
        \A i \in 1..Len(ad_db) :
            \E j \in 1..Len(ad_log) :
                /\ ad_log[j].text = ad_db[i].text
                /\ ad_log[j].turn = ad_db[i].turn

(***************************************************************************)
(* Properties of the session socket                                        *)
(***************************************************************************)
\* the task of a user_message that passes run_step's validation, with a flow
\* that parses, has been created
task_created ==
    /\ sk_task.state = "spawned"
    /\ sk_task.flow_data = "flow"
    /\ validate_run_step_inputs(new_session(flow.first_node_id), sk_task.user_message)

\* the saved session has the task's user message in its history
user_message_saved ==
    /\ saved # <<>>
    /\ \E i \in 1..Len(saved[1].history) :
          saved[1].history[i] = Message("user", Text(sk_task.user_message.text))

\* the saved session has the task's user message with an assistant message
\* next after it
turn_saved ==
    /\ saved # <<>>
    /\ \E i \in 1..(Len(saved[1].history) - 1) :
          /\ saved[1].history[i] = Message("user", Text(sk_task.user_message.text))
          /\ saved[1].history[i + 1].role = "assistant"

\* C28: for every user_message with its message and its flow_data received on
\* a session socket, the background task loads or creates the session, runs one
\* step and at most 10 auto-advance steps and saves the session, so that the
\* saved session eventually holds the user message and its assistant reply
C28_TurnEventuallySaved ==
    /\ [](auto_advance_count <= max_auto_advances)
    /\ task_created ~> (pc = "idle" /\ turn_saved)

\* what the task does do: it comes to its end, the session is saved and the
\* saved session holds the user message
C28_UserMessageEventuallySaved ==
    /\ [](auto_advance_count <= max_auto_advances)
    /\ task_created ~> (pc = "idle" /\ user_message_saved)

(***************************************************************************)
(* Properties of the turns in flight                                       *)
(***************************************************************************)
\* turn t's user message and its reply are in the history, one after the other
holds_turn(history, t) ==
    \E i \in 1..(Len(history) - 1) :
        /\ history[i] = Message("user", t)
        /\ history[i + 1] = Message("assistant", t)

\* C30: for any two turns on the same session id, by the HTTP endpoints or by
\* the socket, once both are completed the session in the store holds the user
\* and assistant messages of both
C30_NoTurnLost ==
    \A t, u \in TurnIds :
        (t # u /\ tn_turn[t].at = "done" /\ tn_turn[u].at = "done") =>
            (holds_turn(tn_store, t) /\ holds_turn(tn_store, u))

\* what holds: the store holds the messages of the turn that saved last and
\* of the turns that had saved when it loaded
C30_LastSaveWins ==
    \A t \in TurnIds :
        (tn_turn[t].at = "done" /\ tn_store = tn_turn[t].history) =>
            holds_turn(tn_store, t)

(***************************************************************************)
(* Properties of the session's node after a canned error reply             *)
(***************************************************************************)
\* the last run_step call returned one of its canned error replies
returned_canned_error == last.path # "none" /\ last.reply \in CannedErrors

C40_ErrorReplyBeforeTheMove ==
    returned_canned_error =>
        IF last.path = "gen_error"
        THEN /\ session.current_node_id = last.entered
             /\ session.previous_node_id = last.before.current_node_id
        ELSE /\ session.current_node_id = last.before.current_node_id
             /\ session.previous_node_id = last.before.previous_node_id

(***************************************************************************)
(* Properties of the pooled connection, its reader and its cleanup         *)
(***************************************************************************)
\* a queue is listed for the session when the delayed cleanup looks
listener_registered == ls_listed /\ ls_queues # <<>>

\* _do_cleanup ran: no connection, no reader, no list of queues
torn_down ==
    /\ ls_conn' = "none"
    /\ ls_reader' = "none"
    /\ ls_queues' = <<>>
    /\ ~ls_listed'

\* the listener registered its queue after the reader's last read
registered_since_last_read(l) ==
    /\ l \in listed(ls_queues)
    /\ ls_read # <<>>
    /\ l \notin listed(ls_read[Len(ls_read)].queues)

\* C31: the delayed cleanup tears down the session's connection, tasks and queues
\* only if no listener is registered when the delay expires; if a listener
\* registered during the delay, nothing is torn down and that listener keeps
\* receiving events (the connection it waits on has a reader)
C31_DelayedCleanupSparesListeners ==
    [][DelayedCleanup =>
          /\ IF listener_registered
             THEN UNCHANGED <<ls_listener, ls_queues, ls_listed, ls_conn, ls_reader>>
             ELSE torn_down
          /\ (\E l \in Listeners : registered_since_last_read(l)) =>
                ls_reader' = "reading"]_vars

\* the teardown half of C31: with a listener registered the delayed cleanup
\* changes nothing, without one it tears down
C31_TeardownOnlyWithoutListeners ==
    [][DelayedCleanup =>
          IF listener_registered
          THEN UNCHANGED <<ls_listener, ls_queues, ls_listed, ls_conn, ls_reader>>
          ELSE torn_down]_vars

\* C37: whenever the pool holds an open connection that _ensure_connection would
\* reuse, a reader task for it is running: after the reader stops on
\* session_ended, error or message_processing_complete, no later listener is
\* attached to a pooled connection that nobody reads
C37_PooledConnectionIsRead ==
    /\ ls_conn = "open" => ls_reader = "reading"
    /\ \A l \in Listeners :
          (ls_listener[l].pc = "listening" /\ ls_conn = "open") => ls_reader = "reading"

\* what holds of the pool and the reader: a connection made has its reader started
\* with it, and an open connection without a running reader is one whose reader
\* has ended and was not cleaned up yet
C37_ReaderlessAfterReaderEnded ==
    /\ ls_conn = "open" => ls_reader \in {"reading", "ended"}
    /\ ls_reader = "reading" => ls_conn \in {"open", "closed"}

\* C38: a listener that registers its queue and then finds the pooled connection
\* unhealthy is still registered once _ensure_connection has replaced the
\* connection: the close sentinel is not delivered to it and its queue is not
\* dropped from the session's list
C38_ReplacementKeepsTheCaller ==
    [][\A l \in Listeners :
          (ListenerConnects(l) /\ ls_conn = "closed" /\ l \in listed(ls_queues)) =>
              /\ l \in listed(ls_queues')
              /\ ls_listener'[l].queue = ls_listener[l].queue]_vars

\* what the replacement does: the list of queues is gone, and the last item on
\* the caller's queue is the close sentinel
C38_ReplacementClosesTheCaller ==
    [][\A l \in Listeners :
          (ListenerConnects(l) /\ ls_conn = "closed" /\ l \in listed(ls_queues)) =>
              /\ ls_queues' = <<>>
              /\ ~ls_listed'
              /\ ls_listener'[l].queue = Append(ls_listener[l].queue, Closed)]_vars

\* the listener is registered for the session and waits on its queue
listens_registered(l) ==
    /\ ls_listener[l].pc = "listening"
    /\ l \in listed(ls_queues)

sentinels(listeners, l) == Len(SelectSeq(listeners[l].got, LAMBDA e : e = Closed))

\* what holds: the step in which the reader ends puts no sentinel on any queue,
\* and a step that puts one is a cleanup, which leaves no list of queues
C32_SentinelOnlyFromCleanup ==
    [][\A l \in Listeners :
          /\ (ls_reader = "reading" /\ ls_reader' = "ended") =>
                sentinels(ls_listener', l) = sentinels(ls_listener, l)
          /\ sentinels(ls_listener', l) # sentinels(ls_listener, l) =>
                (ls_queues' = <<>> /\ ~ls_listed')]_vars

(***************************************************************************)
(* Properties of the futures of the send queue                             *)
(***************************************************************************)
\* the future of message m is resolved: set_result or set_exception was called
future_resolved(m) == sq_call[m] \in {"sent", "failed"}

\* C39: every call of send_user_message eventually returns or raises: no queued
\* message's future is left unresolved, also when a cleanup stops the sender task
\* while messages are queued and when the sender task itself replaces an unhealthy
\* connection
C39_EverySendEnds ==
    \A m \in SendIds : (sq_call[m] = "waiting") ~> future_resolved(m)

\* what holds: a message the sender task has taken off the queue and has a
\* connection for gets its future resolved unless the task is cancelled first
C39_TakenMessagesEnd ==
    \A t \in SenderIds :
        (sq_task[t].pc = "sending") ~>
            (sq_task[t].pc = "done" \/ sq_task[t].msg = 0 \/ future_resolved(sq_task[t].msg))

(***************************************************************************)
(* Properties of the session's set of sent parts                           *)
(***************************************************************************)
\* the texts the platform got in the turn under way
parts_of_turn == {ad_log[i].text : i \in {j \in 1..Len(ad_log) : ad_log[j].turn = ad_turn}}

\* the streaming loop skips the message it looks at
streaming_suppresses == Examine /\ ad_count' = ad_count + 1

\* the fallback loop skips the part it looks at
fallback_suppresses == FallbackExamine /\ ad_pc' = "fb_parts"

\* C35: the set of already-sent parts used for substring suppression is cleared
\* at the end of each turn, so a part of a later turn's reply is never suppressed
\* only because it overlaps a part sent in an earlier turn: whatever is
\* suppressed is a duplicate of something sent in its own turn
C35_SuppressedByItsOwnTurn ==
    [][/\ streaming_suppresses =>
             \/ exact_duplicate(ad_messages_sent, ad_received[ad_count + 1], ad_now)
             \/ substring_duplicate(parts_of_turn, ad_received[ad_count + 1])
       /\ fallback_suppresses =>
             fallback_duplicate(parts_of_turn, Head(ad_fb_parts))]_vars

\* what holds: the set is the session's and only grows, and whatever is
\* suppressed is a duplicate of something sent in the session
C35_SuppressedBySessionParts ==
    [][/\ ad_parts \subseteq ad_parts'
       /\ streaming_suppresses =>
             \/ exact_duplicate(ad_messages_sent, ad_received[ad_count + 1], ad_now)
             \/ substring_duplicate(ad_parts, ad_received[ad_count + 1])
       /\ fallback_suppresses =>
             fallback_duplicate(ad_parts, Head(ad_fb_parts))]_vars

(***************************************************************************)
(* Properties of the turns the engine runs for one inbound message         *)
(***************************************************************************)
\* C36: each inbound chat message causes at most one engine turn (the engine
\* appends the user message to the conversation history at most once), also
\* when the streaming path delivered nothing and the fallback path is taken
C36_OneEngineTurnPerMessage == ad_engine_turns <= 1

\* what holds: the engine runs at most two turns for an inbound message, and the
\* second is the one the fallback asked for
C36_SecondTurnIsTheFallback ==
    /\ ad_engine_turns <= 2
    /\ ad_pc \in {"streaming", "sending", "fallback"} => ad_engine_turns <= 1

(***************************************************************************)
(* Properties of the hub's fan-out while sockets come and go               *)
(***************************************************************************)
\* the send of event t was ended by the set iterator's RuntimeError
send_aborted(t) == hub_task[t].status = "dead"

\* C34: a connect or disconnect during a send does not disturb it: the fan-out
\* works on a snapshot of the socket set, every socket of the snapshot is
\* attempted (no send is ended before the sockets after its position were
\* tried), and only the sockets whose write failed are removed by it
C34_SendUndisturbed ==
    [][/\ \A t \in 1..MaxEvents : ~send_aborted(t)'
       /\ SendEventEnds => hub_sockets \ hub_sockets' \subseteq hub_task[hub_running].failed]_vars

\* what holds: a send that ends by itself removes the sockets whose write failed
\* and no other, and a send is aborted only when the set it iterates has not
\* the size it had when the send began
C34_OnlyFailedSocketsRemoved ==
    [][/\ SendEventEnds => hub_sockets' = hub_sockets \ hub_task[hub_running].failed
       /\ \A t \in 1..MaxEvents :
             (send_aborted(t)' /\ ~send_aborted(t)) =>
                 hub_task[t].used # Cardinality(hub_sockets)]_vars

(***************************************************************************)
(* Properties of the typing indicator                                      *)
(***************************************************************************)
\* no typing task is running
typing_stopped == running(ty_task) = {}

\* every restart of typing found the engine task still running
restarts_with_engine_running ==
    \A i \in 1..Len(ty_restarts) : ~ty_restarts[i].engine_done

\* C33: on the streaming path no typing-indicator task is running at the moment
\* a message is sent to the platform, typing is restarted after a send only if
\* the engine task is still running, and no typing task is left running once
\* streaming for the inbound message has ended, normally or by error
C33_TypingPausedAndStopped ==
    /\ [](\A i \in 1..Len(ty_sent) : ty_sent[i].running = {})
    /\ []restarts_with_engine_running
    /\ (ty_pc = "ended") ~> typing_stopped

\* what holds: the task held in typing_task is not running when a message is
\* sent (a task running then is one a restart has replaced), typing is restarted
\* only while the engine task is running, and after streaming has ended every
\* typing task ends
C33_CurrentTaskPausedAndStopped ==
    /\ [](\A i \in 1..Len(ty_sent) : ty_sent[i].typing_task \notin ty_sent[i].running)
    /\ []restarts_with_engine_running
    /\ (ty_pc = "ended") ~> typing_stopped

=============================================================================
